---- MODULE Spec2Model ----
(***************************************************************************)
(* Regime-driven strategy control loop of QuantDinger:                     *)
(*   app/services/circuit_breaker.py    CircuitBreaker                     *)
(*   app/services/portfolio_allocator.py PortfolioAllocator                *)
(*   app/tasks/regime_switch.py         regime tick                        *)
(*   app/tasks/portfolio_monitor_task.py portfolio-monitor tick            *)
(*   app/services/trading_executor.py   start_strategy / stop_strategy     *)
(*                                                                         *)
(* Python floats are modelled as exact rationals [n, d] in lowest terms,   *)
(* d > 0.  time.time() is modelled as an integer clock counted in minutes. *)
(***************************************************************************)
EXTENDS Integers, Sequences, FiniteSets, TLC

VARIABLES
    now,        \* time.time(), in minutes
    breaker,    \* the CircuitBreaker singleton's fields
    cb_call,    \* the last call made on the breaker: arguments, result, state before
    alloc,      \* the PortfolioAllocator singleton's fields
    ur_call,    \* the last update_regime call: config, allocator before, result
    config,     \* the stored configuration, as _load_config returns it
    ncalls,     \* update_regime calls made so far
    executor,   \* TradingExecutor.running_strategies
    db_status,  \* the persisted status of each strategy
    pc,         \* where each invocation of a run() stands
    rt,         \* the locals of the regime tick in progress, and how it ended
    mt,         \* the locals of the monitor tick in progress, and how it ended
    run_lock,   \* the _run_lock of each of the two tasks: its holder
    alloc_lock, \* PortfolioAllocator._lock: its holder
    obs,        \* what a concurrent reader of the allocator saw
    faults      \* whether the collaborators of the tasks can fail in this run

(***************************************************************************)
(* Exact rational arithmetic                                               *)
(***************************************************************************)
Abs(x) == IF x < 0 THEN -x ELSE x

RECURSIVE GCD(_, _)
GCD(a, b) == IF b = 0 THEN a ELSE GCD(b, a % b)

Frac(n, d) == LET g == GCD(Abs(n), d) IN [n |-> n \div g, d |-> d \div g]
R(k) == [n |-> k, d |-> 1]
Zero == R(0)
One == R(1)
Add(a, b) == Frac(a.n * b.d + b.n * a.d, a.d * b.d)
Sub(a, b) == Frac(a.n * b.d - b.n * a.d, a.d * b.d)
Mul(a, b) == Frac(a.n * b.n, a.d * b.d)
Div(a, b) == IF b.n > 0 THEN Frac(a.n * b.d, a.d * b.n)
                        ELSE Frac((-a.n) * b.d, a.d * (-b.n))
LT(a, b) == a.n * b.d < b.n * a.d
LE(a, b) == a.n * b.d <= b.n * a.d
RMin(a, b) == IF LT(b, a) THEN b ELSE a
RMax(a, b) == IF LT(a, b) THEN b ELSE a
RAbs(a) == [n |-> Abs(a.n), d |-> a.d]

(***************************************************************************)
(* Bounds of the model                                                     *)
(***************************************************************************)
EquityUnit == 5      \* equities passed to check are multiples of this
MinEquityK == 16
MaxEquityK == 20
MaxNow == 3          \* the clock stops advancing here
MaxId == 4           \* strategy IDs the runtime may hold
PoolX == 30          \* the configured capital pool of symbol X
InitialCapital == 10 \* the initial capital passed for a strategy
MaxCalls == 3        \* direct update_regime calls in one run
MaxThreads == 3      \* STRATEGY_MAX_THREADS of the deployment
PnlLoss == 6         \* the unrealized loss the open positions can show

(***************************************************************************)
(* CircuitBreaker                                                          *)
(***************************************************************************)
NoTime == -1         \* _trigger_time = None

\* config["multi_strategy"]["circuit_breaker"], with the defaults of check()
DefaultMaxDrawdownPct == 15
DefaultRecoveryPct == 10

NoCbConfig == [enabled |-> FALSE, max_drawdown_pct |-> R(DefaultMaxDrawdownPct),
               recovery_threshold_pct |-> R(DefaultRecoveryPct), cooldown_minutes |-> 0]

CbConfigs ==
    [enabled : {TRUE},
     max_drawdown_pct : {R(DefaultMaxDrawdownPct)},
     recovery_threshold_pct : {R(DefaultRecoveryPct), R(DefaultMaxDrawdownPct),
                               R(2 * DefaultRecoveryPct)},
     cooldown_minutes : {0, 2}]
    \cup {NoCbConfig}

Equities ==
    {R(-EquityUnit), Zero} \cup {R(k * EquityUnit) : k \in MinEquityK..MaxEquityK}

BreakerInit ==
    [peak_equity |-> Zero, is_triggered |-> FALSE,
     trigger_time |-> NoTime, last_equity |-> Zero]

compute_drawdown_pct(b) ==
    IF LE(b.peak_equity, Zero) THEN Zero
    ELSE Mul(Div(Sub(b.peak_equity, b.last_equity), b.peak_equity), R(100))

\* (self._trigger_time or 0)
TriggerTimeOrZero(b) == IF b.trigger_time = NoTime THEN 0 ELSE b.trigger_time

\* the branch of check() taken while not yet triggered, the mutant of it that
\* triggers only on a drawdown strictly above the threshold
CheckNormalStrict(b1, max_dd, t) ==
    IF LT(max_dd, compute_drawdown_pct(b1))
    THEN [b |-> [b1 EXCEPT !.is_triggered = TRUE, !.trigger_time = t], ret |-> TRUE]
    ELSE [b |-> b1, ret |-> b1.is_triggered]

CheckNormal(b1, max_dd, t) ==
    IF LE(max_dd, compute_drawdown_pct(b1))
    THEN [b |-> [b1 EXCEPT !.is_triggered = TRUE, !.trigger_time = t], ret |-> TRUE]
    ELSE [b |-> b1, ret |-> b1.is_triggered]

\* the mutant of the recovery branch that releases on the drawdown alone
CheckTriggeredNoCooldown(b1, recovery, cooldown_min, t) ==
    IF LT(compute_drawdown_pct(b1), recovery)
    THEN [b |-> [b1 EXCEPT !.is_triggered = FALSE, !.trigger_time = NoTime],
          ret |-> FALSE]
    ELSE [b |-> b1, ret |-> b1.is_triggered]

\* the mutant of the recovery branch that releases at the threshold itself
CheckTriggeredInclusive(b1, recovery, cooldown_min, t) ==
    LET elapsed_min == t - TriggerTimeOrZero(b1)
    IN IF LE(compute_drawdown_pct(b1), recovery) /\ elapsed_min >= cooldown_min
       THEN [b |-> [b1 EXCEPT !.is_triggered = FALSE, !.trigger_time = NoTime],
             ret |-> FALSE]
       ELSE [b |-> b1, ret |-> b1.is_triggered]

\* the mutant of the recovery branch that waits until the cooldown is exceeded
CheckTriggeredPastCooldown(b1, recovery, cooldown_min, t) ==
    LET elapsed_min == t - TriggerTimeOrZero(b1)
    IN IF LT(compute_drawdown_pct(b1), recovery) /\ elapsed_min > cooldown_min
       THEN [b |-> [b1 EXCEPT !.is_triggered = FALSE, !.trigger_time = NoTime],
             ret |-> FALSE]
       ELSE [b |-> b1, ret |-> b1.is_triggered]

\* the mutant of the recovery branch that stamps the time again while it
\* stays triggered
CheckTriggeredRestamp(b1, recovery, cooldown_min, t) ==
    LET elapsed_min == t - TriggerTimeOrZero(b1)
    IN IF LT(compute_drawdown_pct(b1), recovery) /\ elapsed_min >= cooldown_min
       THEN [b |-> [b1 EXCEPT !.is_triggered = FALSE, !.trigger_time = NoTime],
             ret |-> FALSE]
       ELSE [b |-> [b1 EXCEPT !.trigger_time = t], ret |-> b1.is_triggered]

CheckTriggered(b1, recovery, cooldown_min, t) ==
    LET elapsed_min == t - TriggerTimeOrZero(b1)
    IN IF LT(compute_drawdown_pct(b1), recovery) /\ elapsed_min >= cooldown_min
       THEN [b |-> [b1 EXCEPT !.is_triggered = FALSE, !.trigger_time = NoTime],
             ret |-> FALSE]
       ELSE [b |-> b1, ret |-> b1.is_triggered]

\* the mutant of the peak update that follows the equity down as well
TrackPeakAlways(b, current_equity) ==
    [b EXCEPT !.last_equity = current_equity, !.peak_equity = current_equity]

TrackPeak(b, current_equity) ==
    [b EXCEPT !.last_equity = current_equity,
              !.peak_equity = IF LT(b.peak_equity, current_equity)
                              THEN current_equity ELSE b.peak_equity]

\* CircuitBreaker.check(current_equity, config) called at time t:
\* the breaker after the call and the value returned
\* the mutant of check that tracks the peak before it looks at enabled
check_tracks_when_disabled(b, current_equity, cb_cfg, t) ==
    LET b1 == TrackPeak(b, current_equity)
    IN IF ~cb_cfg.enabled THEN [b |-> b1, ret |-> FALSE]
       ELSE IF ~b1.is_triggered
       THEN CheckNormal(b1, cb_cfg.max_drawdown_pct, t)
       ELSE CheckTriggered(b1, cb_cfg.recovery_threshold_pct,
                           cb_cfg.cooldown_minutes, t)

check(b, current_equity, cb_cfg, t) ==
    IF ~cb_cfg.enabled THEN [b |-> b, ret |-> FALSE]
    ELSE LET b1 == TrackPeak(b, current_equity)
         IN IF ~b1.is_triggered
            THEN CheckNormal(b1, cb_cfg.max_drawdown_pct, t)
            ELSE CheckTriggered(b1, cb_cfg.recovery_threshold_pct,
                                cb_cfg.cooldown_minutes, t)

\* the mutant of reset that also forgets the peak, as reset_peak would
reset_with_peak(b) ==
    [b EXCEPT !.is_triggered = FALSE, !.trigger_time = NoTime,
              !.peak_equity = Zero, !.last_equity = Zero]

\* the mutant of reset that clears the flag and keeps the trigger time
reset_flag_only(b) == [b EXCEPT !.is_triggered = FALSE]

reset(b) == [b EXCEPT !.is_triggered = FALSE, !.trigger_time = NoTime]

reset_peak(b, equity) == [b EXCEPT !.peak_equity = equity, !.last_equity = equity]

(***************************************************************************)
(* PortfolioAllocator                                                      *)
(*                                                                         *)
(* A dict is a function on its key set; a list of strategy IDs is the set  *)
(* of its members (IDs are unique in the symbol -> style -> IDs map).      *)
(***************************************************************************)
Styles == {"conservative", "balanced", "aggressive"}
Regimes == {"panic", "high_vol", "normal", "low_vol"}

EmptyFn == [x \in {} |-> Zero]
Get(f, k, default) == IF k \in DOMAIN f THEN f[k] ELSE default

RECURSIVE SumOver(_, _)
SumOver(f, S) ==
    IF S = {} THEN Zero
    ELSE LET x == CHOOSE y \in S : TRUE IN Add(f[x], SumOver(f, S \ {x}))

RECURSIVE MaxOver(_, _)
MaxOver(f, S) ==
    IF S = {} THEN Zero
    ELSE LET x == CHOOSE y \in S : TRUE IN RMax(f[x], MaxOver(f, S \ {x}))

AllocatorInit ==
    [current_regime |-> "normal",
     effective_weights |-> EmptyFn,
     target_weights |-> EmptyFn,
     strategy_allocation |-> EmptyFn,
     strategy_style |-> EmptyFn,
     strategy_initial_capital |-> EmptyFn,
     symbol_strategies |-> EmptyFn,
     symbol_capital_pool |-> EmptyFn,
     frozen_strategies |-> {},
     effective_weights_per_symbol |-> EmptyFn,
     regime_per_symbol |-> EmptyFn,
     strategy_to_symbol |-> EmptyFn]

\* _get_all_managed_ids over a symbol -> style -> IDs map
ManagedIdsOf(symbol_strategies) ==
    UNION {symbol_strategies[sym][st] :
             sym \in DOMAIN symbol_strategies, st \in Styles}

get_all_managed_ids(a) == ManagedIdsOf(a.symbol_strategies)

StyleOfId(symbol_strategies, sid) ==
    CHOOSE st \in Styles :
        \E sym \in DOMAIN symbol_strategies : sid \in symbol_strategies[sym][st]

SymbolOfId(symbol_strategies, sid) ==
    CHOOSE sym \in DOMAIN symbol_strategies :
        \E st \in Styles : sid \in symbol_strategies[sym][st]

rebuild_strategy_style_map(a) ==
    [a EXCEPT
       !.strategy_style = [sid \in ManagedIdsOf(a.symbol_strategies) |->
                             StyleOfId(a.symbol_strategies, sid)],
       !.strategy_to_symbol = [sid \in ManagedIdsOf(a.symbol_strategies) |->
                                 SymbolOfId(a.symbol_strategies, sid)]]

strategy_belongs_to_symbol(a, sid, symbol) ==
    sid \in DOMAIN a.strategy_to_symbol /\ a.strategy_to_symbol[sid] = symbol

FallbackWeights ==
    [st \in Styles |-> IF st = "balanced" THEN Frac(3, 5) ELSE Frac(1, 5)]

get_target_weights(regime, ms_cfg) ==
    LET weights == Get(ms_cfg.regime_to_weights, regime, EmptyFn)
    IN IF DOMAIN weights = {} THEN FallbackWeights ELSE weights

\* the mutant of the threshold that takes the cutoff off the kept entries
apply_threshold_shift(weights, threshold) ==
    [k \in DOMAIN weights |->
        IF LE(threshold, weights[k]) THEN Sub(weights[k], threshold) ELSE Zero]

apply_threshold(weights, threshold) ==
    [k \in DOMAIN weights |-> IF LE(threshold, weights[k]) THEN weights[k] ELSE Zero]

PositivePart(weights) == [k \in DOMAIN weights |-> RMax(weights[k], Zero)]

\* the mutant of the normalisation that returns its argument
normalize_weights_identity(weights) == weights

normalize_weights(weights) ==
    LET total == SumOver(PositivePart(weights), DOMAIN weights)
    IN IF LE(total, Zero) THEN weights
       ELSE [k \in DOMAIN weights |->
               IF LT(Zero, weights[k]) THEN Div(weights[k], total) ELSE Zero]

\* the mutant of the step that jumps to the target whatever the distance
GradualStepUncapped(cur_val, tgt_val, max_step) == tgt_val

\* the mutant of the step that moves by half of max_step_per_tick
GradualStepHalf(cur_val, tgt_val, max_step) ==
    LET diff == Sub(tgt_val, cur_val)
        half == Div(max_step, R(2))
    IN IF LE(RAbs(diff), half) THEN tgt_val
       ELSE IF LT(Zero, diff) THEN Add(cur_val, half)
       ELSE Sub(cur_val, half)

\* the mutant of the step that always moves by max_step_per_tick
GradualStepNoSnap(cur_val, tgt_val, max_step) ==
    LET diff == Sub(tgt_val, cur_val)
    IN IF diff = Zero THEN tgt_val
       ELSE IF LT(Zero, diff) THEN Add(cur_val, max_step)
       ELSE Sub(cur_val, max_step)

\* one style's step of the gradual transition, before renormalisation
GradualStep(cur_val, tgt_val, max_step) ==
    LET diff == Sub(tgt_val, cur_val)
    IN IF LE(RAbs(diff), max_step) THEN tgt_val
       ELSE IF LT(Zero, diff) THEN Add(cur_val, max_step)
       ELSE Sub(cur_val, max_step)

SteppedWeights(current, target, max_step) ==
    [k \in DOMAIN current \cup DOMAIN target |->
       GradualStep(Get(current, k, Zero), Get(target, k, Zero), max_step)]

apply_gradual_transition(current, target, transition_cfg) ==
    IF transition_cfg.mode # "gradual" \/ DOMAIN current = {} THEN target
    ELSE normalize_weights(
             SteppedWeights(current, target, transition_cfg.max_step_per_tick))

\* the styles of a style map that list at least one ID
NonEmptyStyles(style_map) == {st \in Styles : style_map[st] # {}}

calculate_symbol_pool(a, style_map) ==
    LET ids == UNION {style_map[st] : st \in Styles}
        ic == [sid \in ids |-> Get(a.strategy_initial_capital, sid, Zero)]
        max_ic == MaxOver(ic, ids)
        style_count == Cardinality(NonEmptyStyles(style_map))
    IN IF LT(Zero, max_ic) THEN Mul(max_ic, R(style_count)) ELSE Zero

SymbolPool(a, ms_cfg, symbol) ==
    IF symbol \in DOMAIN ms_cfg.symbol_capital_pool
    THEN ms_cfg.symbol_capital_pool[symbol]
    ELSE calculate_symbol_pool(a, a.symbol_strategies[symbol])

SymbolWeights(a, symbol, use_per_symbol) ==
    IF use_per_symbol THEN Get(a.effective_weights_per_symbol, symbol, EmptyFn)
    ELSE a.effective_weights

\* the mutant of the capital cap that never caps
CappedAllocationNoCap(per_strategy, orig, max_alloc_ratio) == per_strategy

\* cap = min(per_strategy, orig * max_alloc_ratio) when orig > 0
CappedAllocation(per_strategy, orig, max_alloc_ratio) ==
    IF LT(Zero, orig) THEN RMin(per_strategy, Mul(orig, max_alloc_ratio))
    ELSE per_strategy

StrategyAllocation(a, ms_cfg, use_per_symbol, sid) ==
    LET symbol == SymbolOfId(a.symbol_strategies, sid)
        style == StyleOfId(a.symbol_strategies, sid)
        ids == a.symbol_strategies[symbol][style]
        weight == Get(SymbolWeights(a, symbol, use_per_symbol), style, Zero)
    IN IF LE(weight, Zero) THEN Zero
       ELSE CappedAllocation(
                Div(Mul(SymbolPool(a, ms_cfg, symbol), weight), R(Cardinality(ids))),
                Get(a.strategy_initial_capital, sid, Zero),
                ms_cfg.max_allocation_ratio)

\* _compute_allocations, its two assignments taken one after the other
NewAllocation(a, ms_cfg, use_per_symbol) ==
    [sid \in ManagedIdsOf(a.symbol_strategies) |->
       StrategyAllocation(a, ms_cfg, use_per_symbol, sid)]

NewPools(a, ms_cfg) ==
    [symbol \in DOMAIN a.symbol_strategies |-> SymbolPool(a, ms_cfg, symbol)]

\* the mutant of the allocation step that writes the new entries into the
\* old table instead of replacing the table
compute_allocations_merge(a, ms_cfg, use_per_symbol) ==
    LET new == NewAllocation(a, ms_cfg, use_per_symbol)
    IN [a EXCEPT !.strategy_allocation =
                     [sid \in DOMAIN new \cup DOMAIN a.strategy_allocation |->
                        IF sid \in DOMAIN new THEN new[sid]
                        ELSE a.strategy_allocation[sid]],
                 !.symbol_capital_pool = NewPools(a, ms_cfg)]

compute_allocations(a, ms_cfg, use_per_symbol) ==
    [a EXCEPT !.strategy_allocation = NewAllocation(a, ms_cfg, use_per_symbol),
              !.symbol_capital_pool = NewPools(a, ms_cfg)]

\* the mutant of the freeze update that never clears a freeze on a
\* non-decreasing allocation
handle_over_allocation_never_unfreeze(a, old_alloc) ==
    LET new == a.strategy_allocation
        freeze == {sid \in DOMAIN new :
                     LT(new[sid], Get(old_alloc, sid, Zero)) /\ LT(Zero, new[sid])}
        frozen1 == a.frozen_strategies \cup freeze
    IN [a EXCEPT !.frozen_strategies =
                     {sid \in frozen1 : LT(Zero, Get(new, sid, Zero))}]

\* the mutant of the freeze update that clears a freeze only on a strictly
\* larger allocation
handle_over_allocation_strict(a, old_alloc) ==
    LET new == a.strategy_allocation
        freeze == {sid \in DOMAIN new :
                     LT(new[sid], Get(old_alloc, sid, Zero)) /\ LT(Zero, new[sid])}
        unfreeze == {sid \in DOMAIN new :
                       LT(Get(old_alloc, sid, Zero), new[sid]) /\ LT(Zero, new[sid])}
        frozen1 == (a.frozen_strategies \cup freeze) \ unfreeze
    IN [a EXCEPT !.frozen_strategies =
                     {sid \in frozen1 : LT(Zero, Get(new, sid, Zero))}]

\* the mutant of the freeze update whose last pass looks only at IDs that
\* have an allocation entry
handle_over_allocation_allocated_only(a, old_alloc) ==
    LET new == a.strategy_allocation
        freeze == {sid \in DOMAIN new :
                     LT(new[sid], Get(old_alloc, sid, Zero)) /\ LT(Zero, new[sid])}
        unfreeze == {sid \in DOMAIN new :
                       LE(Get(old_alloc, sid, Zero), new[sid]) /\ LT(Zero, new[sid])}
        frozen1 == (a.frozen_strategies \cup freeze) \ unfreeze
        closed == {sid \in frozen1 \cap DOMAIN new : LE(new[sid], Zero)}
    IN [a EXCEPT !.frozen_strategies = frozen1 \ closed]

handle_over_allocation(a, old_alloc) ==
    LET new == a.strategy_allocation
        freeze == {sid \in DOMAIN new :
                     LT(new[sid], Get(old_alloc, sid, Zero)) /\ LT(Zero, new[sid])}
        unfreeze == {sid \in DOMAIN new :
                       LE(Get(old_alloc, sid, Zero), new[sid]) /\ LT(Zero, new[sid])}
        frozen1 == (a.frozen_strategies \cup freeze) \ unfreeze
        closed == {sid \in frozen1 : LE(Get(new, sid, Zero), Zero)}
    IN [a EXCEPT !.frozen_strategies = frozen1 \ closed]

\* the mutant of the diff that also stops running IDs outside the managed set
compute_start_stop_diff_all_running(a, running_ids) ==
    [stopped |-> {sid \in running_ids :
                    LE(Get(a.strategy_allocation, sid, Zero), Zero)},
     started |-> {sid \in get_all_managed_ids(a) :
                    LT(Zero, Get(a.strategy_allocation, sid, Zero))
                    /\ sid \notin running_ids}]

\* _compute_start_stop_diff, given what _get_running_ids returned (the empty
\* set when it raised)
compute_start_stop_diff(a, running_ids) ==
    [stopped |-> {sid \in get_all_managed_ids(a) :
                    LE(Get(a.strategy_allocation, sid, Zero), Zero)
                    /\ sid \in running_ids},
     started |-> {sid \in get_all_managed_ids(a) :
                    LT(Zero, Get(a.strategy_allocation, sid, Zero))
                    /\ sid \notin running_ids}]

\* abs(x - y) > 1e-6, that is n / d > 1 / 1000000, without the large product
Differs(x, y) == LET diff == RAbs(Sub(x, y)) IN diff.n > diff.d \div 1000000

find_weight_changed(a, old_weights, new_weights) ==
    LET changed_styles ==
            {st \in DOMAIN old_weights \cup DOMAIN new_weights :
               Differs(Get(old_weights, st, Zero), Get(new_weights, st, Zero))}
    IN {sid \in DOMAIN a.strategy_style : a.strategy_style[sid] \in changed_styles}

\* update_regime, lines 138-173 and 194-202: everything up to the weights
UpdateWeights(a, regime, ms_cfg, symbol_strategies, strategy_initial_capitals, regime_per_symbol) ==
    LET a1 == rebuild_strategy_style_map(
                  [a EXCEPT
                     !.current_regime = regime,
                     !.symbol_strategies = symbol_strategies,
                     !.regime_per_symbol = regime_per_symbol,
                     !.strategy_initial_capital =
                         [sid \in DOMAIN a.strategy_initial_capital
                                  \cup DOMAIN strategy_initial_capitals |->
                            IF sid \in DOMAIN strategy_initial_capitals
                            THEN strategy_initial_capitals[sid]
                            ELSE a.strategy_initial_capital[sid]]])
        TargetFor(r) ==
            normalize_weights(
                apply_threshold(get_target_weights(r, ms_cfg),
                                ms_cfg.min_weight_threshold))
    IN IF DOMAIN regime_per_symbol # {}
       THEN [a1 EXCEPT
               !.target_weights = EmptyFn,
               !.effective_weights = EmptyFn,
               !.effective_weights_per_symbol =
                   [symbol \in DOMAIN symbol_strategies |->
                      apply_gradual_transition(
                          Get(a.effective_weights_per_symbol, symbol, EmptyFn),
                          TargetFor(Get(regime_per_symbol, symbol, regime)),
                          ms_cfg.transition)]]
       ELSE [a1 EXCEPT
               !.target_weights = TargetFor(regime),
               !.effective_weights =
                   apply_gradual_transition(a.effective_weights, TargetFor(regime),
                                            ms_cfg.transition),
               !.effective_weights_per_symbol = EmptyFn]

\* the weight_changed list of the result, from the allocator before the call
\* (a0) and after UpdateWeights (a1)
WeightChanged(a0, a1) ==
    IF DOMAIN a1.regime_per_symbol # {}
    THEN {sid \in DOMAIN a1.strategy_style :
            \E symbol \in DOMAIN a1.symbol_strategies :
                LET effective == a1.effective_weights_per_symbol[symbol]
                    old_weights == Get(a0.effective_weights_per_symbol, symbol, EmptyFn)
                    sty == a1.strategy_style[sid]
                IN /\ sty \in DOMAIN effective
                   /\ strategy_belongs_to_symbol(a1, sid, symbol)
                   /\ Differs(effective[sty], Get(old_weights, sty, Zero))}
    ELSE find_weight_changed(a1, a0.effective_weights, a1.effective_weights)

\* what a call of _get_running_ids gives: the IDs whose thread is alive, or an
\* exception
RunningQuery(raised, ids) == [raised |-> raised, ids |-> ids]

\* update_regime as one call: the allocator after it, whether it raised, and
\* the dict it returns.  q1 is the running-ID query inside
\* _compute_start_stop_diff (an exception there is swallowed), q2 the one made
\* by update_regime itself.
update_regime(a, regime, ms_cfg, symbol_strategies, strategy_initial_capitals, regime_per_symbol, q1, q2) ==
    LET use_per_symbol == DOMAIN regime_per_symbol # {}
        a1 == UpdateWeights(a, regime, ms_cfg, symbol_strategies,
                            strategy_initial_capitals, regime_per_symbol)
        a2 == compute_allocations(a1, ms_cfg, use_per_symbol)
        a3 == handle_over_allocation(a2, a1.strategy_allocation)
        diff == compute_start_stop_diff(a3, IF q1.raised THEN {} ELSE q1.ids)
    IN [a |-> a3,
        raised |-> q2.raised,
        result |-> [started |-> diff.started,
                    stopped |-> diff.stopped,
                    weight_changed |-> WeightChanged(a, a1),
                    running_count |-> Cardinality(q2.ids),
                    target_count |->
                        Cardinality({sid \in get_all_managed_ids(a3) :
                            LT(Zero, Get(a3.strategy_allocation, sid, Zero))})]]

(***************************************************************************)
(* Inputs of the model                                                     *)
(***************************************************************************)
Ids == 1..MaxId      \* 1..3 appear in the strategy maps, the others never do

StyleMap(c, b, g) ==
    [st \in Styles |-> IF st = "conservative" THEN c
                       ELSE IF st = "balanced" THEN b ELSE g]

MapX == [sym \in {"X"} |-> StyleMap({1}, {2}, {3})]
MapXY == [sym \in {"X", "Y"} |->
            IF sym = "X" THEN StyleMap({1, 2}, {}, {}) ELSE StyleMap({}, {3}, {})]
SymbolMaps == {EmptyFn, MapX, MapXY}

Weights(c, b, g) == StyleMap(c, b, g)

\* multi_strategy.regime_to_weights: normal and high_vol are left to the fallback
RegimeToWeights ==
    [r \in {"panic", "low_vol"} |->
       IF r = "panic" THEN Weights(Frac(4, 5), Frac(1, 5), Zero)
       ELSE Weights(Frac(1, 25), Frac(12, 25), Frac(12, 25))]

DefaultMinWeightThreshold == Frac(1, 20)
DefaultMaxStep == Frac(1, 5)

MsConfig(enabled, mode, ratio, pools, cb) ==
    [enabled |-> enabled,
     min_weight_threshold |-> DefaultMinWeightThreshold,
     transition |-> [mode |-> mode, max_step_per_tick |-> DefaultMaxStep],
     max_allocation_ratio |-> ratio,
     symbol_capital_pool |-> pools,
     regime_to_weights |-> RegimeToWeights,
     circuit_breaker |-> cb]

ConfiguredPools == [sym \in {"X"} |-> R(PoolX)]

AllocConfigs ==
    {MsConfig(TRUE, mode, R(2), EmptyFn, NoCbConfig) : mode \in {"immediate", "gradual"}}
    \cup {MsConfig(TRUE, mode, R(1), ConfiguredPools, NoCbConfig) :
            mode \in {"immediate", "gradual"}}

\* regime_to_style of the binary mode; the other regimes take the default
RegimeToStyle ==
    [r \in {"panic", "low_vol"} |->
       IF r = "panic" THEN {"conservative"} ELSE {"aggressive"}]

\* what _load_config returns
Config(symbol_strategies, ms_cfg) ==
    [symbol_strategies |-> symbol_strategies, multi_strategy |-> ms_cfg,
     regime_to_style |-> RegimeToStyle]

NoMsConfig == MsConfig(FALSE, "immediate", R(2), EmptyFn, NoCbConfig)

\* _load_config when the file cannot be read: {}
EmptyConfig ==
    [symbol_strategies |-> EmptyFn, multi_strategy |-> NoMsConfig,
     regime_to_style |-> EmptyFn]

\* the last update_regime call: its configuration, the allocator before it,
\* whether it raised, and its result
UrCall(op, ms_cfg, pre, raised, result) ==
    [op |-> op, ms_cfg |-> ms_cfg, pre |-> pre, raised |-> raised, result |-> result]

NoResult == [started |-> {}, stopped |-> {}, weight_changed |-> {},
             running_count |-> 0, target_count |-> 0]

\* the last call on the breaker: its arguments, the time of the call, what
\* it returned and the breaker before it
CbCall(op, equity, cfg, at, ret, pre) ==
    [op |-> op, equity |-> equity, cfg |-> cfg, at |-> at, ret |-> ret, pre |-> pre]

(***************************************************************************)
(* TradingExecutor and the persisted strategy status                       *)
(***************************************************************************)
\* executor.running_strategies: running holds its keys, dead those of them
\* whose thread has exited
ExecutorInit == [running |-> {MaxId}, dead |-> {}]

\* PortfolioAllocator._get_running_ids: the IDs whose thread is alive
get_running_ids(ex) == ex.running \ ex.dead

\* regime_switch._get_currently_running_ids: every registered ID
get_currently_running_ids(ex) == ex.running

\* TradingExecutor.start_strategy: the executor after the call and the result
start_strategy(ex, sid) ==
    LET live == ex.running \ ex.dead
    IN IF Cardinality(live) >= MaxThreads \/ sid \in live
       THEN [ex |-> [running |-> live, dead |-> {}], ok |-> FALSE]
       ELSE [ex |-> [running |-> live \cup {sid}, dead |-> {}], ok |-> TRUE]

\* TradingExecutor.stop_strategy: it marks the status "stopped" itself
stop_strategy(ex, db, sid) ==
    IF sid \notin ex.running THEN [ex |-> ex, db |-> db, ok |-> FALSE]
    ELSE [ex |-> [running |-> ex.running \ {sid}, dead |-> ex.dead \ {sid}],
          db |-> [db EXCEPT ![sid] = "stopped"], ok |-> TRUE]

\* StrategyService.batch_start_strategies / batch_stop_strategies
PersistStatus(db, ids, status) ==
    [sid \in DOMAIN db |-> IF sid \in ids THEN status ELSE db[sid]]

MinOf(S) == CHOOSE x \in S : \A y \in S : x <= y

\* the loop of _stop_strategies over the sorted IDs
RECURSIVE StopEach(_, _, _)
StopEach(ex, db, ids) ==
    IF ids = {} THEN [ex |-> ex, db |-> db]
    ELSE LET r == stop_strategy(ex, db, MinOf(ids))
         IN StopEach(r.ex, r.db, ids \ {MinOf(ids)})

\* the mutant of _stop_strategies that only writes the status
stop_strategies_status_only(ex, db, ids, persist_fails) ==
    IF ids = {} THEN [ex |-> ex, db |-> db, raised |-> FALSE]
    ELSE IF persist_fails THEN [ex |-> ex, db |-> db, raised |-> TRUE]
    ELSE [ex |-> ex, db |-> PersistStatus(db, ids, "stopped"), raised |-> FALSE]

\* _stop_strategies(ids): runtime first, then the status; persist_fails says
\* whether batch_stop_strategies raises
stop_strategies(ex, db, ids, persist_fails) ==
    IF ids = {} THEN [ex |-> ex, db |-> db, raised |-> FALSE]
    ELSE LET r == StopEach(ex, db, ids)
         IN IF persist_fails THEN [ex |-> r.ex, db |-> r.db, raised |-> TRUE]
            ELSE [ex |-> r.ex, db |-> PersistStatus(r.db, ids, "stopped"),
                  raised |-> FALSE]

\* the loop of _start_strategies over the sorted IDs, collecting failed_ids
RECURSIVE StartEach(_, _, _)
StartEach(ex, ids, failed) ==
    IF ids = {} THEN [ex |-> ex, failed |-> failed]
    ELSE LET r == start_strategy(ex, MinOf(ids))
         IN StartEach(r.ex, ids \ {MinOf(ids)},
                      IF r.ok THEN failed ELSE failed \cup {MinOf(ids)})

\* the mutant of _start_strategies that leaves out the rollback
start_strategies_no_rollback(ex, db, ids, persist_fails) ==
    IF ids = {} THEN [ex |-> ex, db |-> db, raised |-> FALSE, failed |-> {}]
    ELSE IF persist_fails THEN [ex |-> ex, db |-> db, raised |-> TRUE, failed |-> {}]
    ELSE LET r == StartEach(ex, ids, {})
         IN [ex |-> r.ex, db |-> PersistStatus(db, ids, "running"),
             raised |-> FALSE, failed |-> r.failed]

\* _start_strategies(ids): the status first, then the runtime, then the
\* rollback of the IDs that did not start
start_strategies(ex, db, ids, persist_fails) ==
    IF ids = {} THEN [ex |-> ex, db |-> db, raised |-> FALSE, failed |-> {}]
    ELSE IF persist_fails THEN [ex |-> ex, db |-> db, raised |-> TRUE, failed |-> {}]
    ELSE LET r == StartEach(ex, ids, {})
         IN [ex |-> r.ex,
             db |-> PersistStatus(PersistStatus(db, ids, "running"), r.failed, "stopped"),
             raised |-> FALSE, failed |-> r.failed]

(***************************************************************************)
(* regime_switch: regime and target set                                    *)
(***************************************************************************)
\* the default cutoffs of compute_regime for the VIX
VixPanic == 30
VixHighVol == 25
VixLowVol == 15

\* compute_regime with the VIX as primary indicator
compute_regime(vix) ==
    IF vix > VixPanic THEN "panic"
    ELSE IF vix > VixHighVol THEN "high_vol"
    ELSE IF vix < VixLowVol THEN "low_vol"
    ELSE "normal"

\* compute_regime_per_symbol without per-market indicators
compute_regime_per_symbol(symbol_strategies, vix) ==
    [sym \in DOMAIN symbol_strategies |-> compute_regime(vix)]

\* regime_default of _run_inner
RegimeDefault(regime_per_symbol) ==
    IF DOMAIN regime_per_symbol = {} THEN "normal"
    ELSE regime_per_symbol[CHOOSE sym \in DOMAIN regime_per_symbol : TRUE]

\* compute_target_strategy_ids (the binary mode)
compute_target_strategy_ids(regime, cfg, symbol_strategies, regime_per_symbol) ==
    UNION {UNION {symbol_strategies[sym][st] :
                    st \in Get(cfg.regime_to_style,
                               Get(regime_per_symbol, sym, regime), {"balanced"})} :
             sym \in DOMAIN symbol_strategies}

\* the mutant of the binary diff that starts the whole target set
LegacyDiffStartAll(target_ids, managed_ids, running_ids) ==
    [started |-> target_ids,
     stopped |-> (running_ids \cap managed_ids) \ target_ids]

\* _run_legacy: ids_to_start and ids_to_stop
LegacyDiff(target_ids, managed_ids, running_ids) ==
    LET managed_running == running_ids \cap managed_ids
    IN [started |-> target_ids \ managed_running,
        stopped |-> managed_running \ target_ids]

\* the breaker configuration of the running system: no cooldown
CbOn == [enabled |-> TRUE, max_drawdown_pct |-> R(DefaultMaxDrawdownPct),
         recovery_threshold_pct |-> R(DefaultRecoveryPct), cooldown_minutes |-> 0]

\* the configurations of the running system: multi-strategy with the breaker,
\* the same without a configured mapping (the mapping then comes from the
\* database), the same with the breaker disabled, and the binary mode
ControllerConfigs ==
    {Config(MapX, MsConfig(TRUE, "immediate", R(2), ConfiguredPools, CbOn)),
     Config(EmptyFn, MsConfig(TRUE, "immediate", R(2), ConfiguredPools, CbOn)),
     Config(MapX, MsConfig(TRUE, "immediate", R(2), ConfiguredPools, NoCbConfig)),
     Config(MapX, NoMsConfig)}

\* what _get_symbol_strategies_from_db can give
DbMaps == {EmptyFn, MapX}

\* the VIX of the macro snapshot
VixValues == {VixHighVol - 5, VixPanic + 5}

\* total_unrealized_pnl of the open positions
Pnls == {Zero, R(0 - PnlLoss)}

\* what a reader of the allocator looks at
AllocatorView(a) ==
    [allocation |-> a.strategy_allocation,
     pools |-> a.symbol_capital_pool,
     frozen |-> a.frozen_strategies,
     weights |-> a.effective_weights,
     weights_per_symbol |-> a.effective_weights_per_symbol]

ObsInit == [view |-> AllocatorView(AllocatorInit), during |-> FALSE,
            pre |-> AllocatorView(AllocatorInit),
            post |-> AllocatorView(AllocatorInit), settled |-> FALSE]

Configs ==
    {Config(MapX, c) : c \in AllocConfigs}
    \cup {Config(MapXY, MsConfig(TRUE, "immediate", R(2), EmptyFn, NoCbConfig))}

(***************************************************************************)
(* The two periodic entry points.  A thread is one invocation of run().    *)
(***************************************************************************)
RegimeThreads == {"r1", "r2"}
MonitorThreads == {"m1", "m2"}
Free == "free"

\* the mutant of the guard that enters whoever holds the lock
TryAcquireAlways(holder) == TRUE

\* _run_lock.acquire(blocking=False)
TryAcquire(holder) == holder = Free

\* the mutant of the release that an exception skips
release_unless_raised(lock, task, raised) ==
    IF raised THEN lock ELSE [lock EXCEPT ![task] = Free]

\* finally: _run_lock.release(), reached when _run_inner returns and when it
\* raises
release_finally(lock, task, raised) == [lock EXCEPT ![task] = Free]

RegimeLocalsInit ==
    [config |-> Config(EmptyFn, NoMsConfig), symbol_strategies |-> EmptyFn,
     regime |-> "normal", regime_per_symbol |-> EmptyFn, pre |-> AllocatorInit,
     stopped |-> {}, started |-> {}, failed |-> {}, query_failed |-> FALSE,
     mode |-> "none",
     outcome |-> "none", entered_triggered |-> FALSE, started_triggered |-> FALSE]

MonitorLocalsInit ==
    [config |-> Config(EmptyFn, NoMsConfig), equity |-> Zero,
     was_triggered |-> FALSE, is_triggered |-> FALSE, checked |-> FALSE,
     rose |-> FALSE,
     estop |-> FALSE, estop_ids |-> {}, outcome |-> "none"]

RegimeBody == {"r_inner", "r_upd1", "r_upd2", "r_upd3", "r_upd4", "r_legacy",
               "r_stop", "r_start", "r_exit"}
MonitorBody == {"m_inner", "m_check", "m_estop", "m_exit"}

\* whether a call of a collaborator raises
FailureChoices == IF faults THEN BOOLEAN ELSE {FALSE}

\* whether _load_config reads the file
LoadOutcomes == IF faults THEN BOOLEAN ELSE {TRUE}

\* run(): the non-blocking guard
RunRegime(t) ==
    /\ pc[t] = "idle"
    /\ IF TryAcquire(run_lock.regime)
       THEN /\ run_lock' = [run_lock EXCEPT !.regime = t]
            /\ pc' = [pc EXCEPT ![t] = "r_inner"]
            /\ rt' = [RegimeLocalsInit EXCEPT
                        !.entered_triggered = breaker.is_triggered]
       ELSE /\ pc' = [pc EXCEPT ![t] = "skipped"]
            /\ UNCHANGED <<run_lock, rt>>
    /\ UNCHANGED <<now, breaker, cb_call, alloc, ur_call, config, ncalls, faults,
                   executor, db_status, mt, alloc_lock, obs>>

\* the return of an invocation that found the lock taken
SkipReturn(t) ==
    /\ pc[t] = "skipped"
    /\ pc' = [pc EXCEPT ![t] = "idle"]
    /\ UNCHANGED <<now, breaker, cb_call, alloc, ur_call, config, ncalls, faults,
                   executor, db_status, rt, mt, run_lock, alloc_lock, obs>>

\* _run_inner up to the choice of the mode: the config, the strategy map
\* (from the config, else from the database), the macro snapshot, the regimes
RegimeInner(t) ==
    /\ pc[t] = "r_inner"
    /\ \E load_ok \in LoadOutcomes, db_map \in DbMaps, vix \in VixValues :
        LET cfg == IF load_ok THEN config ELSE EmptyConfig
            symbol_strategies ==
                IF DOMAIN cfg.symbol_strategies # {} THEN cfg.symbol_strategies
                ELSE db_map
            rps == compute_regime_per_symbol(symbol_strategies, vix)
        IN IF DOMAIN symbol_strategies = {}
           THEN /\ rt' = [rt EXCEPT !.config = cfg, !.mode = "noop"]
                /\ pc' = [pc EXCEPT ![t] = "r_exit"]
           ELSE /\ rt' = [rt EXCEPT
                            !.config = cfg,
                            !.symbol_strategies = symbol_strategies,
                            !.regime_per_symbol = rps,
                            !.regime = RegimeDefault(rps),
                            !.mode = IF cfg.multi_strategy.enabled
                                     THEN "multi" ELSE "legacy"]
                /\ pc' = [pc EXCEPT ![t] = IF cfg.multi_strategy.enabled
                                           THEN "r_upd1" ELSE "r_legacy"]
    /\ UNCHANGED <<now, breaker, cb_call, alloc, ur_call, config, ncalls, faults,
                   executor, db_status, mt, run_lock, alloc_lock, obs>>

\* update_regime, lines 137-173: takes the allocator's lock, sets the weights
RegimeUpdateWeights(t) ==
    /\ pc[t] = "r_upd1"
    /\ alloc_lock = Free
    /\ alloc_lock' = t
    /\ alloc' = UpdateWeights(alloc, rt.regime, rt.config.multi_strategy,
                              rt.symbol_strategies, EmptyFn, rt.regime_per_symbol)
    /\ rt' = [rt EXCEPT !.pre = alloc]
    /\ obs' = ObsInit
    /\ pc' = [pc EXCEPT ![t] = "r_upd2"]
    /\ UNCHANGED <<now, breaker, cb_call, ur_call, config, ncalls, faults,
                   executor, db_status, mt, run_lock>>

\* update_regime, line 176: _compute_allocations
RegimeComputeAllocations(t) ==
    /\ pc[t] = "r_upd2"
    /\ alloc' = compute_allocations(alloc, rt.config.multi_strategy,
                                    DOMAIN rt.regime_per_symbol # {})
    /\ pc' = [pc EXCEPT ![t] = "r_upd3"]
    /\ UNCHANGED <<now, breaker, cb_call, ur_call, config, ncalls, faults,
                   executor, db_status, rt, mt, run_lock, alloc_lock, obs>>

\* update_regime, line 177: _handle_over_allocation
RegimeHandleOverAllocation(t) ==
    /\ pc[t] = "r_upd3"
    /\ alloc' = handle_over_allocation(alloc, rt.pre.strategy_allocation)
    /\ pc' = [pc EXCEPT ![t] = "r_upd4"]
    /\ UNCHANGED <<now, breaker, cb_call, ur_call, config, ncalls, faults,
                   executor, db_status, rt, mt, run_lock, alloc_lock, obs>>

\* update_regime, lines 179-192: the diff and the return.  The running-ID
\* query is made twice; an exception of the first is swallowed, one of the
\* second leaves update_regime, _run_inner and run().
RegimeDiff(t) ==
    /\ pc[t] = "r_upd4"
    /\ \E q1_fails \in FailureChoices, q2_fails \in FailureChoices :
        LET diff == compute_start_stop_diff(
                        alloc, IF q1_fails THEN {} ELSE get_running_ids(executor))
        IN IF q2_fails
           THEN /\ rt' = [RegimeLocalsInit EXCEPT !.outcome = "raised"]
                /\ pc' = [pc EXCEPT ![t] = "idle"]
                /\ run_lock' = release_finally(run_lock, "regime", TRUE)
           ELSE /\ rt' = [rt EXCEPT !.stopped = diff.stopped,
                                    !.started = diff.started,
                                    !.query_failed = q1_fails]
                /\ pc' = [pc EXCEPT ![t] = "r_stop"]
                /\ UNCHANGED run_lock
    /\ alloc_lock' = Free
    /\ obs' = IF obs.during /\ ~obs.settled
              THEN [obs EXCEPT !.post = AllocatorView(alloc), !.settled = TRUE]
              ELSE obs
    /\ UNCHANGED <<now, breaker, cb_call, alloc, ur_call, config, ncalls, faults,
                   executor, db_status, mt>>

\* _run_legacy up to the diff
RegimeLegacy(t) ==
    /\ pc[t] = "r_legacy"
    /\ \E q_fails \in FailureChoices :
        LET diff == LegacyDiff(
                        compute_target_strategy_ids(rt.regime, rt.config,
                            rt.symbol_strategies, rt.regime_per_symbol),
                        ManagedIdsOf(rt.symbol_strategies),
                        get_currently_running_ids(executor))
        IN IF q_fails
           THEN /\ rt' = [RegimeLocalsInit EXCEPT !.outcome = "raised"]
                /\ pc' = [pc EXCEPT ![t] = "idle"]
                /\ run_lock' = release_finally(run_lock, "regime", TRUE)
           ELSE /\ rt' = [rt EXCEPT !.stopped = diff.stopped,
                                    !.started = diff.started]
                /\ pc' = [pc EXCEPT ![t] =
                            IF diff.stopped = {} /\ diff.started = {}
                            THEN "r_exit" ELSE "r_stop"]
                /\ UNCHANGED run_lock
    /\ UNCHANGED <<now, breaker, cb_call, alloc, ur_call, config, ncalls, faults,
                   executor, db_status, mt, alloc_lock, obs>>

\* _stop_strategies(ids_to_stop)
RegimeStop(t) ==
    /\ pc[t] = "r_stop"
    /\ \E persist_fails \in FailureChoices :
        LET r == stop_strategies(executor, db_status, rt.stopped, persist_fails)
        IN /\ executor' = r.ex
           /\ db_status' = r.db
           /\ IF r.raised
              THEN /\ rt' = [RegimeLocalsInit EXCEPT !.outcome = "raised"]
                   /\ pc' = [pc EXCEPT ![t] = "idle"]
                   /\ run_lock' = release_finally(run_lock, "regime", TRUE)
              ELSE /\ pc' = [pc EXCEPT ![t] = "r_start"]
                   /\ UNCHANGED <<rt, run_lock>>
    /\ UNCHANGED <<now, breaker, cb_call, alloc, ur_call, config, ncalls, faults,
                   mt, alloc_lock, obs>>

\* _start_strategies(ids_to_start)
RegimeStart(t) ==
    /\ pc[t] = "r_start"
    /\ \E persist_fails \in FailureChoices :
        LET r == start_strategies(executor, db_status, rt.started, persist_fails)
        IN /\ executor' = r.ex
           /\ db_status' = r.db
           /\ IF r.raised
              THEN /\ rt' = [RegimeLocalsInit EXCEPT !.outcome = "raised"]
                   /\ pc' = [pc EXCEPT ![t] = "idle"]
                   /\ run_lock' = release_finally(run_lock, "regime", TRUE)
              ELSE /\ rt' = [rt EXCEPT
                               !.failed = r.failed,
                               !.started_triggered =
                                   breaker.is_triggered /\ rt.started # r.failed]
                   /\ pc' = [pc EXCEPT ![t] = "r_exit"]
                   /\ UNCHANGED run_lock
    /\ UNCHANGED <<now, breaker, cb_call, alloc, ur_call, config, ncalls, faults,
                   mt, alloc_lock, obs>>

\* the return of _run_inner and the release of the guard
RegimeExit(t) ==
    /\ pc[t] = "r_exit"
    /\ rt' = [RegimeLocalsInit EXCEPT
                 !.outcome = IF rt.mode = "noop" THEN "noop" ELSE "returned"]
    /\ pc' = [pc EXCEPT ![t] = "idle"]
    /\ run_lock' = release_finally(run_lock, "regime", FALSE)
    /\ UNCHANGED <<now, breaker, cb_call, alloc, ur_call, config, ncalls, faults,
                   executor, db_status, mt, alloc_lock, obs>>

\* the steps of the tick body
RegimeTick(t) ==
    \/ RegimeInner(t)
    \/ RegimeUpdateWeights(t) \/ RegimeComputeAllocations(t)
    \/ RegimeHandleOverAllocation(t) \/ RegimeDiff(t) \/ RegimeLegacy(t)
    \/ RegimeStop(t) \/ RegimeStart(t) \/ RegimeExit(t)


(***************************************************************************)
(* portfolio_monitor_task                                                  *)
(***************************************************************************)
\* run(): the non-blocking guard
RunMonitor(t) ==
    /\ pc[t] = "idle"
    /\ IF TryAcquire(run_lock.monitor)
       THEN /\ run_lock' = [run_lock EXCEPT !.monitor = t]
            /\ pc' = [pc EXCEPT ![t] = "m_inner"]
            /\ mt' = MonitorLocalsInit
       ELSE /\ pc' = [pc EXCEPT ![t] = "skipped"]
            /\ UNCHANGED <<run_lock, mt>>
    /\ UNCHANGED <<now, breaker, cb_call, alloc, ur_call, config, ncalls, faults,
                   executor, db_status, rt, alloc_lock, obs>>

\* _run_inner, lines 40-58: the config, the two switches, the summary and the
\* read of breaker.is_triggered
MonitorInner(t) ==
    /\ pc[t] = "m_inner"
    /\ \E load_ok \in LoadOutcomes, pnl \in Pnls :
        LET cfg == IF load_ok THEN config ELSE EmptyConfig
            ms_cfg == cfg.multi_strategy
            total_equity ==
                SumOver(alloc.symbol_capital_pool, DOMAIN alloc.symbol_capital_pool)
            total_pnl == IF get_all_managed_ids(alloc) = {} THEN Zero ELSE pnl
        IN IF ~ms_cfg.enabled \/ ~ms_cfg.circuit_breaker.enabled
           THEN /\ mt' = [mt EXCEPT !.config = cfg]
                /\ pc' = [pc EXCEPT ![t] = "m_exit"]
           ELSE /\ mt' = [mt EXCEPT !.config = cfg,
                                    !.equity = Add(total_equity, total_pnl),
                                    !.was_triggered = breaker.is_triggered]
                /\ pc' = [pc EXCEPT ![t] = "m_check"]
    /\ UNCHANGED <<now, breaker, cb_call, alloc, ur_call, config, ncalls, faults,
                   executor, db_status, rt, run_lock, alloc_lock, obs>>

\* _run_inner, lines 59-61: breaker.check and the edge test
MonitorCheck(t) ==
    /\ pc[t] = "m_check"
    /\ LET r == check(breaker, mt.equity, mt.config.multi_strategy.circuit_breaker, now)
       IN /\ breaker' = r.b
          /\ mt' = [mt EXCEPT !.is_triggered = r.ret, !.checked = TRUE,
                               !.rose = ~breaker.is_triggered /\ r.b.is_triggered]
          /\ pc' = [pc EXCEPT ![t] = IF r.ret /\ ~mt.was_triggered
                                     THEN "m_estop" ELSE "m_exit"]
    /\ UNCHANGED <<now, cb_call, alloc, ur_call, config, ncalls, faults,
                   executor, db_status, rt, run_lock, alloc_lock, obs>>

\* _emergency_stop_all
MonitorEmergencyStop(t) ==
    /\ pc[t] = "m_estop"
    /\ \E persist_fails \in FailureChoices :
        LET all_ids == get_all_managed_ids(alloc)
            r == stop_strategies(executor, db_status, all_ids, persist_fails)
        IN /\ executor' = r.ex
           /\ db_status' = r.db
           /\ IF r.raised
              THEN /\ mt' = [MonitorLocalsInit EXCEPT !.outcome = "raised"]
                   /\ pc' = [pc EXCEPT ![t] = "idle"]
                   /\ run_lock' = release_finally(run_lock, "monitor", TRUE)
              ELSE /\ mt' = [mt EXCEPT !.estop = TRUE, !.estop_ids = all_ids]
                   /\ pc' = [pc EXCEPT ![t] = "m_exit"]
                   /\ UNCHANGED run_lock
    /\ UNCHANGED <<now, breaker, cb_call, alloc, ur_call, config, ncalls, faults,
                   rt, alloc_lock, obs>>

\* the status log, the return of _run_inner and the release of the guard
MonitorExit(t) ==
    /\ pc[t] = "m_exit"
    /\ mt' = [MonitorLocalsInit EXCEPT !.outcome = "returned"]
    /\ pc' = [pc EXCEPT ![t] = "idle"]
    /\ run_lock' = release_finally(run_lock, "monitor", FALSE)
    /\ UNCHANGED <<now, breaker, cb_call, alloc, ur_call, config, ncalls, faults,
                   executor, db_status, rt, alloc_lock, obs>>

\* the steps of the tick body
MonitorTick(t) ==
    \/ MonitorInner(t) \/ MonitorCheck(t)
    \/ MonitorEmergencyStop(t) \/ MonitorExit(t)

(***************************************************************************)
(* The environment of the two tasks                                        *)
(***************************************************************************)
\* POST /circuit-breaker/reset
OperatorReset ==
    /\ breaker.is_triggered
    /\ breaker' = reset(breaker)
    /\ UNCHANGED <<now, cb_call, alloc, ur_call, config, ncalls, faults, executor, db_status,
                   pc, rt, mt, run_lock, alloc_lock, obs>>

\* a reader of the allocator (get_portfolio_summary, get_allocated_capital,
\* is_frozen) that runs while update_regime is in progress; it takes no lock
ReadAllocator ==
    /\ alloc_lock # Free
    /\ ~obs.during
    /\ obs' = [obs EXCEPT !.view = AllocatorView(alloc), !.during = TRUE,
                          !.pre = AllocatorView(rt.pre)]
    /\ UNCHANGED <<now, breaker, cb_call, alloc, ur_call, config, ncalls, faults,
                   executor, db_status, pc, rt, mt, run_lock, alloc_lock>>

(***************************************************************************)
(* The breaker driven directly: any sequence of check, reset and           *)
(* reset_peak calls while the clock advances                               *)
(***************************************************************************)
vars == <<now, breaker, cb_call, alloc, ur_call, config, ncalls,
          faults, executor, db_status, pc, rt, mt, run_lock, alloc_lock, obs>>

ctrl == <<faults, executor, db_status, pc, rt, mt, run_lock, alloc_lock, obs>>

DbStatusInit == [sid \in Ids |-> IF sid = MaxId THEN "running" ELSE "stopped"]

InitTasks ==
    /\ executor = ExecutorInit
    /\ db_status = DbStatusInit
    /\ pc = [t \in RegimeThreads \cup MonitorThreads |-> "idle"]
    /\ rt = RegimeLocalsInit
    /\ mt = MonitorLocalsInit
    /\ run_lock = [regime |-> Free, monitor |-> Free]
    /\ alloc_lock = Free
    /\ obs = ObsInit

InitController ==
    /\ InitTasks
    /\ faults = TRUE

InitBreaker ==
    /\ now = 1
    /\ breaker = BreakerInit
    /\ cb_call = CbCall("none", Zero, NoCbConfig, 1, FALSE, BreakerInit)
    /\ alloc = AllocatorInit
    /\ ur_call = UrCall("none", NoMsConfig, AllocatorInit, FALSE, NoResult)
    /\ config = Config(EmptyFn, NoMsConfig)
    /\ ncalls = 0
    /\ InitController

ClockTick ==
    /\ now < MaxNow
    /\ now' = now + 1
    /\ UNCHANGED <<breaker, cb_call, alloc, ur_call, config, ncalls, ctrl>>

CallCheck ==
    \E eq \in Equities, cfg \in CbConfigs :
        LET r == check(breaker, eq, cfg, now)
        IN /\ breaker' = r.b
           /\ cb_call' = CbCall("check", eq, cfg, now, r.ret, breaker)
           /\ UNCHANGED <<now, alloc, ur_call, config, ncalls, ctrl>>

CallReset ==
    /\ breaker' = reset(breaker)
    /\ cb_call' = CbCall("reset", Zero, NoCbConfig, now, FALSE, breaker)
    /\ UNCHANGED <<now, alloc, ur_call, config, ncalls, ctrl>>

CallResetPeak ==
    \E eq \in Equities :
        /\ breaker' = reset_peak(breaker, eq)
        /\ cb_call' = CbCall("reset_peak", eq, NoCbConfig, now, FALSE, breaker)
        /\ UNCHANGED <<now, alloc, ur_call, config, ncalls, ctrl>>

NextBreaker == ClockTick \/ CallCheck \/ CallReset \/ CallResetPeak

SpecBreaker == InitBreaker /\ [][NextBreaker]_vars

(***************************************************************************)
(* One trigger episode of the breaker under the periodic monitor tick:     *)
(* arbitrary checks, then, from some point on, only checks that observe a  *)
(* drawdown below the recovery threshold, while the clock keeps running    *)
(***************************************************************************)
RecoveryClockSlack == 2   \* minutes the clock runs on past MaxNow, the longest cooldown

\* the checks of the recovering phase: circuit breaker enabled, and the
\* drawdown computed by the call lies below the call's recovery threshold
RecoveringChecks(b) ==
    {c \in [eq : Equities, cfg : CbConfigs \ {NoCbConfig}] :
        LT(compute_drawdown_pct(TrackPeak(b, c.eq)), c.cfg.recovery_threshold_pct)}

InitRecovery ==
    /\ now = 1
    /\ breaker = BreakerInit
    /\ cb_call = CbCall("none", Zero, NoCbConfig, 1, FALSE, BreakerInit)
    /\ alloc = AllocatorInit
    /\ ur_call = UrCall("none", NoMsConfig, AllocatorInit, FALSE, NoResult)
    /\ config = Config(EmptyFn, NoMsConfig)
    /\ ncalls = 0
    /\ faults = FALSE
    /\ executor = ExecutorInit
    /\ db_status = DbStatusInit
    /\ pc = "any"
    /\ rt = RegimeLocalsInit
    /\ mt = MonitorLocalsInit
    /\ run_lock = [regime |-> Free, monitor |-> Free]
    /\ alloc_lock = Free
    /\ obs = ObsInit

RecoveryClockTick ==
    /\ now < MaxNow + RecoveryClockSlack
    /\ pc = "any" => now < MaxNow
    /\ now' = now + 1
    /\ UNCHANGED <<breaker, cb_call, alloc, ur_call, config, ncalls, ctrl>>

AnyCheck ==
    /\ pc = "any"
    /\ \E eq \in Equities, cfg \in CbConfigs :
        breaker' = check(breaker, eq, cfg, now).b
    /\ UNCHANGED <<now, cb_call, alloc, ur_call, config, ncalls, ctrl>>

\* the point from which every tick observes a recovered drawdown
BeginRecovery ==
    /\ pc = "any"
    /\ breaker.is_triggered
    /\ pc' = "recovering"
    /\ UNCHANGED <<now, breaker, cb_call, alloc, ur_call, config, ncalls, faults,
                   executor, db_status, rt, mt, run_lock, alloc_lock, obs>>

RecoveringCheck ==
    /\ pc = "recovering"
    /\ \E c \in RecoveringChecks(breaker) :
        LET r == check(breaker, c.eq, c.cfg, now)
        IN /\ breaker' = r.b
           /\ cb_call' = CbCall("check", c.eq, c.cfg, now, r.ret, breaker)
           /\ pc' = IF r.b.is_triggered THEN "recovering" ELSE "released"
    /\ UNCHANGED <<now, alloc, ur_call, config, ncalls, faults, executor,
                   db_status, rt, mt, run_lock, alloc_lock, obs>>

NextRecovery == RecoveryClockTick \/ AnyCheck \/ BeginRecovery \/ RecoveringCheck

\* a check of the recovering phase that changes the state is possible
\* exactly in the recovering phase: the equity at the peak always qualifies
RecoveringCheckEnabled == pc = "recovering"

\* WF_vars(RecoveringCheck), with ENABLED <<RecoveringCheck>>_vars written
\* as the control state it is equivalent to
FairRecoveringCheck ==
    []<>(~RecoveringCheckEnabled) \/ []<><<RecoveringCheck>>_vars

\* time passes and the scheduler keeps running the monitor tick
SpecRecovery ==
    /\ InitRecovery
    /\ [][NextRecovery]_vars
    /\ WF_vars(RecoveryClockTick)
    /\ FairRecoveringCheck

(***************************************************************************)
(* The allocator driven directly: any sequence of update_regime calls      *)
(***************************************************************************)
\* the arguments of a direct update_regime call besides the configuration
UpdateInputs(symbol_strategies) ==
    {[regime |-> regime, caps |-> caps, rps |-> rps] :
       regime \in {"panic", "normal", "low_vol"},
       caps \in {EmptyFn}, rps \in {EmptyFn}}
    \cup {[regime |-> regime, caps |-> [sid \in 1..3 |-> R(InitialCapital)],
           rps |-> EmptyFn] : regime \in {"panic", "normal", "low_vol"}}
    \cup {[regime |-> regime, caps |-> EmptyFn,
           rps |-> [sym \in DOMAIN symbol_strategies |->
                      IF sym = "X" THEN regime ELSE "normal"]] :
             regime \in {"panic", "normal", "low_vol"}}

ConfigChange ==
    \E cfg \in Configs :
        /\ ncalls < MaxCalls
        /\ config' = cfg
        /\ UNCHANGED <<now, breaker, cb_call, alloc, ur_call, ncalls, ctrl>>

CallUpdateRegime ==
    /\ ncalls < MaxCalls
    /\ \E in \in UpdateInputs(config.symbol_strategies) :
        LET q == RunningQuery(FALSE, {2, MaxId})
            r == update_regime(alloc, in.regime, config.multi_strategy,
                               config.symbol_strategies, in.caps, in.rps, q, q)
        IN /\ alloc' = r.a
           /\ ur_call' = UrCall("update_regime", config.multi_strategy, alloc,
                                r.raised, r.result)
           /\ ncalls' = ncalls + 1
           /\ UNCHANGED <<now, breaker, cb_call, config, ctrl>>

NextAlloc == ConfigChange \/ CallUpdateRegime

InitAlloc ==
    /\ now = 1
    /\ breaker = BreakerInit
    /\ cb_call = CbCall("none", Zero, NoCbConfig, 1, FALSE, BreakerInit)
    /\ alloc = AllocatorInit
    /\ ur_call = UrCall("none", NoMsConfig, AllocatorInit, FALSE, NoResult)
    /\ config \in Configs
    /\ ncalls = 0
    /\ InitController

SpecAlloc == InitAlloc /\ [][NextAlloc]_vars

(***************************************************************************)
(* The allocator driven directly, with manual freezes and a strategy map   *)
(* that loses strategies between calls                                     *)
(***************************************************************************)
\* symbol X with strategy 1 alone: strategies 2 and 3 have left the map
MapX1 == [sym \in {"X"} |-> StyleMap({1}, {}, {})]

\* PortfolioAllocator.freeze_strategy(strategy_id)
freeze_strategy(a, strategy_id) ==
    [a EXCEPT !.frozen_strategies = @ \cup {strategy_id}]

CallFreeze ==
    /\ ncalls < MaxCalls
    /\ \E sid \in Ids :
        /\ alloc' = freeze_strategy(alloc, sid)
        /\ ur_call' = UrCall("freeze_strategy", config.multi_strategy, alloc,
                             FALSE, NoResult)
    /\ ncalls' = ncalls + 1
    /\ UNCHANGED <<now, breaker, cb_call, config, ctrl>>

\* the configuration is edited: strategies 2 and 3 are taken out
ShrinkMap ==
    /\ ncalls < MaxCalls
    /\ config.symbol_strategies # MapX1
    /\ config' = Config(MapX1, config.multi_strategy)
    /\ UNCHANGED <<now, breaker, cb_call, alloc, ur_call, ncalls, ctrl>>

NextFreeze == CallUpdateRegime \/ CallFreeze \/ ShrinkMap

SpecFreeze == InitAlloc /\ [][NextFreeze]_vars

(***************************************************************************)
(* The running system: the two periodic tasks, each invoked from two       *)
(* scheduler threads, the operator and the strategy threads                *)
(***************************************************************************)
Init ==
    /\ now = 1
    /\ breaker = BreakerInit
    /\ cb_call = CbCall("none", Zero, NoCbConfig, 1, FALSE, BreakerInit)
    /\ alloc = AllocatorInit
    /\ ur_call = UrCall("none", NoMsConfig, AllocatorInit, FALSE, NoResult)
    /\ config \in ControllerConfigs
    /\ ncalls = 0
    /\ InitController

Next ==
    \/ RunRegime("r1") \/ RegimeTick("r1")
    \/ RunMonitor("m1") \/ MonitorTick("m1")
    \/ OperatorReset

Spec == Init /\ [][Next]_vars

(***************************************************************************)
(* The same two tasks when the scheduler fires each of them from two       *)
(* threads                                                                 *)
(***************************************************************************)
NextGuard ==
    \/ \E t \in RegimeThreads : RunRegime(t) \/ SkipReturn(t) \/ RegimeTick(t)
    \/ \E t \in MonitorThreads : RunMonitor(t) \/ SkipReturn(t) \/ MonitorTick(t)

InitGuard ==
    /\ now = 1
    /\ breaker = BreakerInit
    /\ cb_call = CbCall("none", Zero, NoCbConfig, 1, FALSE, BreakerInit)
    /\ alloc = AllocatorInit
    /\ ur_call = UrCall("none", NoMsConfig, AllocatorInit, FALSE, NoResult)
    /\ config \in ControllerConfigs
    /\ ncalls = 0
    /\ InitTasks
    /\ faults = FALSE

SpecGuard == InitGuard /\ [][NextGuard]_vars

(***************************************************************************)
(* The regime task and a reader of the allocator                           *)
(***************************************************************************)
NextReaders ==
    \/ RunRegime("r1") \/ RegimeTick("r1")
    \/ ReadAllocator

SpecReaders == Init /\ [][NextReaders]_vars

(***************************************************************************)
(* The read queries of the allocator.  What a query hands out is an object: *)
(* alias says whether it is the allocator's own dict (a write to it is a    *)
(* write to the allocator's field) or a new one.                            *)
(***************************************************************************)
Returned(field, alias, value) == [field |-> field, alias |-> alias, value |-> value]

\* the mutant of the effective_weights property that hands out the dict itself
effective_weights_by_reference(a) ==
    Returned("effective_weights", TRUE, a.effective_weights)

\* return self._strategy_allocation.get(strategy_id): a float or None
get_allocated_capital(a, strategy_id) ==
    Returned("scalar", FALSE, Get(a.strategy_allocation, strategy_id, "None"))

\* return self._frozen_strategies.get(strategy_id, False)
is_frozen(a, strategy_id) ==
    Returned("scalar", FALSE, strategy_id \in a.frozen_strategies)

\* return dict(self._effective_weights)
effective_weights(a) == Returned("effective_weights", FALSE, a.effective_weights)

\* return dict(self._strategy_allocation)
strategy_allocation(a) == Returned("strategy_allocation", FALSE, a.strategy_allocation)

\* return dict(self._target_weights)
target_weights(a) == Returned("target_weights", FALSE, a.target_weights)

\* return dict(self._frozen_strategies)
frozen_strategies(a) == Returned("frozen_strategies", FALSE, a.frozen_strategies)

QueryNames ==
    {"get_allocated_capital", "is_frozen", "effective_weights",
     "strategy_allocation", "target_weights", "frozen_strategies"}

\* the result of one query call
Query(a, name, strategy_id) ==
    CASE name = "get_allocated_capital" -> get_allocated_capital(a, strategy_id)
      [] name = "is_frozen" -> is_frozen(a, strategy_id)
      [] name = "effective_weights" -> effective_weights(a)
      [] name = "strategy_allocation" -> strategy_allocation(a)
      [] name = "target_weights" -> target_weights(a)
      [] name = "frozen_strategies" -> frozen_strategies(a)

Put(f, k, v) == [x \in DOMAIN f \cup {k} |-> IF x = k THEN v ELSE f[x]]

\* what the caller can make of a returned dict: set a key, or clear it
Mutations(r) ==
    IF r.field = "scalar" THEN {}
    ELSE IF r.field = "frozen_strategies" THEN {r.value \cup {1}, {}}
    ELSE IF r.field = "strategy_allocation" THEN {Put(r.value, 1, Zero), EmptyFn}
    ELSE {Put(r.value, "aggressive", One), EmptyFn}

\* a call of one of the queries by the runtime
CallQuery ==
    \E name \in QueryNames, strategy_id \in {1, MaxId} :
        /\ name \notin {"get_allocated_capital", "is_frozen"} => strategy_id = 1
        /\ obs' = [obs EXCEPT !.view = Query(alloc, name, strategy_id),
                              !.settled = TRUE]
        /\ UNCHANGED <<now, breaker, cb_call, alloc, ur_call, config, ncalls, faults,
                       executor, db_status, pc, rt, mt, run_lock, alloc_lock>>

\* the runtime writes to the object the last query returned
MutateReturned ==
    /\ obs.settled
    /\ \E v \in Mutations(obs.view) \ {obs.view.value} :
        /\ obs' = [obs EXCEPT !.view.value = v]
        /\ alloc' = IF obs.view.alias THEN [alloc EXCEPT ![obs.view.field] = v]
                    ELSE alloc
    /\ UNCHANGED <<now, breaker, cb_call, ur_call, config, ncalls, faults,
                   executor, db_status, pc, rt, mt, run_lock, alloc_lock>>

InitQueries ==
    /\ now = 1
    /\ breaker = BreakerInit
    /\ cb_call = CbCall("none", Zero, NoCbConfig, 1, FALSE, BreakerInit)
    /\ alloc = AllocatorInit
    /\ ur_call = UrCall("none", NoMsConfig, AllocatorInit, FALSE, NoResult)
    /\ config \in {Config(MapX, MsConfig(TRUE, "gradual", R(2), EmptyFn, NoCbConfig)),
                   Config(MapX, MsConfig(TRUE, "immediate", R(1), ConfiguredPools, NoCbConfig))}
    /\ ncalls = 0
    /\ InitController

NextQueries == CallUpdateRegime \/ CallQuery \/ MutateReturned

SpecQueries == InitQueries /\ [][NextQueries]_vars

(***************************************************************************)
(* compute_regime as a function of the primary indicator, the macro        *)
(* snapshot, regime_rules and, in custom mode, what the sandbox gives      *)
(***************************************************************************)
FgExtremeFear == 20
FgHighFear == 35
FgLowGreed == 65
DefaultFearGreed == 50
CutoffShift == 4

\* cfg.get(key, default)
Rule(rules, key, default) == Get(rules, key, default)

\* the three cutoffs of a volatility indicator: its own keys, else those of
\* the VIX, else 30 / 25 / 15
VolCutoffs(rules, primary) ==
    LET own(kind) == IF primary = "vhsi" THEN "vhsi_" \o kind
                     ELSE IF primary = "civix" THEN "civix_" \o kind
                     ELSE "vix_" \o kind
    IN [panic |-> Rule(rules, own("panic"), Rule(rules, "vix_panic", VixPanic)),
        high_vol |-> Rule(rules, own("high_vol"), Rule(rules, "vix_high_vol", VixHighVol)),
        low_vol |-> Rule(rules, own("low_vol"), Rule(rules, "vix_low_vol", VixLowVol))]

\* the value compute_regime reads for a volatility indicator
VolValue(primary, macro) ==
    IF primary \in {"vhsi", "civix"} THEN Get(macro, primary, macro["vix"])
    ELSE macro["vix"]

\* the mutant of the chain for the volatility indicators that takes a value
\* equal to a cutoff into the harsher regime
VolRegimeInclusive(vol_val, cutoffs) ==
    IF vol_val >= cutoffs.panic THEN "panic"
    ELSE IF vol_val >= cutoffs.high_vol THEN "high_vol"
    ELSE IF vol_val <= cutoffs.low_vol THEN "low_vol"
    ELSE "normal"

\* the chain of comparisons for vix, vhsi and civix
VolRegime(vol_val, cutoffs) ==
    IF vol_val > cutoffs.panic THEN "panic"
    ELSE IF vol_val > cutoffs.high_vol THEN "high_vol"
    ELSE IF vol_val < cutoffs.low_vol THEN "low_vol"
    ELSE "normal"

\* the chain for fear_greed and for a custom regime_score: low is fear
FearRegime(value, extreme_fear, high_fear, low_greed) ==
    IF value < extreme_fear THEN "panic"
    ELSE IF value < high_fear THEN "high_vol"
    ELSE IF value > low_greed THEN "low_vol"
    ELSE "normal"

\* what the sandbox can give for the custom code: whether there is code,
\* whether it passes validate_code_safety, whether safe_exec_code reports
\* success (an error or a timeout is success false), and the regime and
\* regime_score the code left in its environment
NoScore == [kind |-> "none", value |-> 0]
TextScore == [kind |-> "text", value |-> 0]
NumberScore(v) == [kind |-> "number", value |-> v]

SandboxOutcomes ==
    {[has_code |-> FALSE, is_safe |-> TRUE, success |-> TRUE, regime |-> "None",
      score |-> NoScore],
     [has_code |-> TRUE, is_safe |-> FALSE, success |-> TRUE, regime |-> "None",
      score |-> NoScore],
     [has_code |-> TRUE, is_safe |-> TRUE, success |-> FALSE, regime |-> "panic",
      score |-> NumberScore(FgExtremeFear - 1)]}
    \cup {[has_code |-> TRUE, is_safe |-> TRUE, success |-> TRUE, regime |-> r,
           score |-> sc] :
            r \in {"None", "panic", "low_vol", "crash"},
            sc \in {NoScore, TextScore, NumberScore(FgExtremeFear - 1),
                    NumberScore(FgLowGreed + 1)}}

\* the mutant of the custom resolver without the except around float(score)
compute_regime_custom_unguarded(rules, sb) ==
    IF ~sb.has_code \/ ~sb.is_safe \/ ~sb.success
    THEN [regime |-> "normal", raised |-> FALSE]
    ELSE IF sb.regime \in Regimes THEN [regime |-> sb.regime, raised |-> FALSE]
    ELSE IF sb.score.kind = "text" THEN [regime |-> "None", raised |-> TRUE]
    ELSE IF sb.score.kind = "number"
    THEN [regime |-> FearRegime(sb.score.value,
                                Rule(rules, "custom_score_extreme_fear", FgExtremeFear),
                                Rule(rules, "custom_score_high_fear", FgHighFear),
                                Rule(rules, "custom_score_low_greed", FgLowGreed)),
          raised |-> FALSE]
    ELSE [regime |-> "normal", raised |-> FALSE]

\* _compute_regime_custom: the regime it returns, and whether it raised
compute_regime_custom(rules, sb) ==
    IF ~sb.has_code THEN [regime |-> "normal", raised |-> FALSE]
    ELSE IF ~sb.is_safe THEN [regime |-> "normal", raised |-> FALSE]
    ELSE IF ~sb.success THEN [regime |-> "normal", raised |-> FALSE]
    ELSE IF sb.regime \in Regimes THEN [regime |-> sb.regime, raised |-> FALSE]
    ELSE IF sb.score.kind = "text" THEN [regime |-> "normal", raised |-> FALSE]
    ELSE IF sb.score.kind = "number"
    THEN [regime |-> FearRegime(sb.score.value,
                                Rule(rules, "custom_score_extreme_fear", FgExtremeFear),
                                Rule(rules, "custom_score_high_fear", FgHighFear),
                                Rule(rules, "custom_score_low_greed", FgLowGreed)),
          raised |-> FALSE]
    ELSE [regime |-> "normal", raised |-> FALSE]

\* compute_regime with every primary indicator
compute_regime_primary(primary, macro, rules, sb) ==
    IF primary = "custom" THEN compute_regime_custom(rules, sb)
    ELSE IF primary = "fear_greed"
    THEN [regime |-> FearRegime(Get(macro, "fear_greed", DefaultFearGreed),
                                Rule(rules, "fg_extreme_fear", FgExtremeFear),
                                Rule(rules, "fg_high_fear", FgHighFear),
                                Rule(rules, "fg_low_greed", FgLowGreed)),
          raised |-> FALSE]
    ELSE [regime |-> VolRegime(VolValue(primary, macro), VolCutoffs(rules, primary)),
          raised |-> FALSE]

Primaries == {"vix", "vhsi", "civix", "fear_greed", "custom"}

\* regime_rules: none, cutoffs for the VIX and the score, and cutoffs for the
\* VHSI and fear_greed besides
RuleSets ==
    {EmptyFn,
     [k \in {"vix_panic", "vix_high_vol", "vix_low_vol", "custom_score_extreme_fear"} |->
        IF k = "vix_panic" THEN VixPanic + CutoffShift
        ELSE IF k = "vix_high_vol" THEN VixHighVol + CutoffShift
        ELSE IF k = "vix_low_vol" THEN VixLowVol + CutoffShift
        ELSE FgExtremeFear - CutoffShift],
     [k \in {"vhsi_panic", "vix_high_vol", "fg_extreme_fear", "fg_low_greed"} |->
        IF k = "vhsi_panic" THEN VixPanic - CutoffShift
        ELSE IF k = "vix_high_vol" THEN VixPanic - CutoffShift
        ELSE IF k = "fg_extreme_fear" THEN FgExtremeFear + CutoffShift
        ELSE FgLowGreed - CutoffShift]}

\* the values around the cutoffs
VolValues ==
    {VixLowVol - 1, VixLowVol, VixHighVol, VixHighVol + 1, VixPanic - CutoffShift,
     VixPanic, VixPanic + 1, VixPanic + CutoffShift + 1}

FgValues ==
    {FgExtremeFear - 1, FgExtremeFear, FgHighFear - 1, FgHighFear, FgLowGreed,
     FgLowGreed + 1}

MacroSnapshots ==
    {[k \in {"vix", "fear_greed"} |-> IF k = "vix" THEN v ELSE fg] :
        v \in VolValues, fg \in FgValues}
    \cup {[k \in {"vix", "vhsi", "civix"} |->
             IF k = "vix" THEN VixHighVol ELSE IF k = "vhsi" THEN v ELSE VixPanic + 1 - v + VixLowVol] :
            v \in VolValues}

NoRegimeCall ==
    [primary |-> "none", macro |-> EmptyFn, rules |-> EmptyFn,
     sandbox |-> [has_code |-> FALSE, is_safe |-> TRUE, success |-> TRUE,
                  regime |-> "None", score |-> NoScore],
     regime |-> "None", raised |-> FALSE]

InitRegime ==
    /\ now = 1
    /\ breaker = BreakerInit
    /\ cb_call = CbCall("none", Zero, NoCbConfig, 1, FALSE, BreakerInit)
    /\ alloc = AllocatorInit
    /\ ur_call = UrCall("none", NoMsConfig, AllocatorInit, FALSE, NoResult)
    /\ config = Config(EmptyFn, NoMsConfig)
    /\ ncalls = 0
    /\ faults = FALSE
    /\ executor = ExecutorInit
    /\ db_status = DbStatusInit
    /\ pc = [t \in RegimeThreads \cup MonitorThreads |-> "idle"]
    /\ rt = NoRegimeCall
    /\ mt = MonitorLocalsInit
    /\ run_lock = [regime |-> Free, monitor |-> Free]
    /\ alloc_lock = Free
    /\ obs = ObsInit

\* one call of compute_regime; the sandbox is consulted in custom mode only
CallComputeRegime ==
    /\ \E primary \in Primaries, macro \in MacroSnapshots, rules \in RuleSets,
          sb \in SandboxOutcomes :
        /\ primary # "custom" => sb = NoRegimeCall.sandbox
        /\ primary = "custom" => macro = [k \in {"vix", "fear_greed"} |->
                                            IF k = "vix" THEN VixPanic + 1
                                            ELSE FgLowGreed + 1]
        /\ LET r == compute_regime_primary(primary, macro, rules, sb)
           IN rt' = [primary |-> primary, macro |-> macro, rules |-> rules,
                     sandbox |-> sb, regime |-> r.regime, raised |-> r.raised]
    /\ UNCHANGED <<now, breaker, cb_call, alloc, ur_call, config, ncalls, faults,
                   executor, db_status, pc, mt, run_lock, alloc_lock, obs>>

NextRegime == CallComputeRegime

SpecRegime == InitRegime /\ [][NextRegime]_vars

(***************************************************************************)
(* The gradual transition applied repeatedly to one vector with a fixed    *)
(* target and step                                                         *)
(***************************************************************************)
GridN == 5
StepDen == 5
MaxGradualCalls == 7

\* the normalized vectors over the three styles with entries in 1/GridN
GridVectors ==
    {Weights(Frac(p[1], GridN), Frac(p[2], GridN), Frac(GridN - p[1] - p[2], GridN)) :
       p \in {q \in (0..GridN) \X (0..GridN) : q[1] + q[2] <= GridN}}

GradualSteps == {Frac(1, StepDen), Frac(2, StepDen)}

GradualConfig(max_step) ==
    [MsConfig(TRUE, "gradual", R(2), EmptyFn, NoCbConfig)
       EXCEPT !.transition.max_step_per_tick = max_step]

InitGradual ==
    /\ now = 1
    /\ breaker = BreakerInit
    /\ cb_call = CbCall("none", Zero, NoCbConfig, 1, FALSE, BreakerInit)
    /\ \E start \in GridVectors, target \in GridVectors :
         alloc = [AllocatorInit EXCEPT !.effective_weights = start,
                                       !.target_weights = target]
    /\ \E max_step \in GradualSteps : config = Config(MapX, GradualConfig(max_step))
    /\ ur_call = UrCall("none", config.multi_strategy, alloc, FALSE, NoResult)
    /\ ncalls = 0
    /\ InitController

ApplyGradualTransition ==
    /\ ncalls < MaxGradualCalls
    /\ alloc' = [alloc EXCEPT !.effective_weights =
                    apply_gradual_transition(alloc.effective_weights,
                                             alloc.target_weights,
                                             config.multi_strategy.transition)]
    /\ ncalls' = ncalls + 1
    /\ UNCHANGED <<now, breaker, cb_call, ur_call, config, ctrl>>

NextGradual == ApplyGradualTransition

SpecGradual == InitGradual /\ [][NextGradual]_vars

(***************************************************************************)
(* The regime task alone: nothing but its ticks acts on the runtime        *)
(***************************************************************************)
\* the runtime at the start: an unmanaged strategy runs, with or without the
\* aggressive one of symbol X
InitTick ==
    /\ now = 1
    /\ breaker = BreakerInit
    /\ cb_call = CbCall("none", Zero, NoCbConfig, 1, FALSE, BreakerInit)
    /\ alloc = AllocatorInit
    /\ ur_call = UrCall("none", NoMsConfig, AllocatorInit, FALSE, NoResult)
    /\ config \in ControllerConfigs
    /\ ncalls = 0
    /\ faults \in BOOLEAN
    /\ executor \in {ExecutorInit, [running |-> {3}, dead |-> {}]}
    /\ db_status = [sid \in Ids |-> IF sid \in executor.running THEN "running"
                                    ELSE "stopped"]
    /\ pc = [t \in RegimeThreads \cup MonitorThreads |-> "idle"]
    /\ rt = RegimeLocalsInit
    /\ mt = MonitorLocalsInit
    /\ run_lock = [regime |-> Free, monitor |-> Free]
    /\ alloc_lock = Free
    /\ obs = ObsInit

NextTick == RunRegime("r1") \/ RegimeTick("r1")

SpecTick == InitTick /\ [][NextTick]_vars

(***************************************************************************)
(* Two allocators, each receiving its own sequence of update_regime calls  *)
(***************************************************************************)
\* the calls: a regime, with or without the initial capitals
PairInputs ==
    {[regime |-> regime, caps |-> caps, rps |-> EmptyFn] :
       regime \in {"panic", "low_vol"},
       caps \in {EmptyFn, [sid \in 1..3 |-> R(InitialCapital)]}}

PairConfigs ==
    {Config(MapX, MsConfig(TRUE, "gradual", R(2), EmptyFn, NoCbConfig)),
     Config(MapX, MsConfig(TRUE, "immediate", R(1), ConfiguredPools, NoCbConfig))}

\* the last pair of calls: whether both allocators received the same call,
\* and the two allocators before it
PairCall(op, same_call, pre, pre2) ==
    [op |-> op, same_call |-> same_call, pre |-> pre, pre2 |-> pre2]

\* alloc is the first allocator and obs the second
InitPair ==
    /\ now = 1
    /\ breaker = BreakerInit
    /\ cb_call = CbCall("none", Zero, NoCbConfig, 1, FALSE, BreakerInit)
    /\ alloc = AllocatorInit
    /\ obs = AllocatorInit
    /\ ur_call = PairCall("none", FALSE, AllocatorInit, AllocatorInit)
    /\ config \in PairConfigs
    /\ ncalls = 0
    /\ faults = FALSE
    /\ executor = ExecutorInit
    /\ db_status = DbStatusInit
    /\ pc = [t \in RegimeThreads \cup MonitorThreads |-> "idle"]
    /\ rt = RegimeLocalsInit
    /\ mt = MonitorLocalsInit
    /\ run_lock = [regime |-> Free, monitor |-> Free]
    /\ alloc_lock = Free

\* one update_regime call on each allocator
CallUpdateRegimePair ==
    /\ ncalls < MaxCalls
    /\ \E in1 \in PairInputs, in2 \in PairInputs :
        LET q == RunningQuery(FALSE, {2, MaxId})
            r1 == update_regime(alloc, in1.regime, config.multi_strategy,
                                config.symbol_strategies, in1.caps, in1.rps, q, q)
            r2 == update_regime(obs, in2.regime, config.multi_strategy,
                                config.symbol_strategies, in2.caps, in2.rps, q, q)
        IN /\ alloc' = r1.a
           /\ obs' = r2.a
           /\ ur_call' = PairCall("update_regime", in1 = in2, alloc, obs)
    /\ ncalls' = ncalls + 1
    /\ UNCHANGED <<now, breaker, cb_call, config, faults, executor, db_status,
                   pc, rt, mt, run_lock, alloc_lock>>

NextPair == CallUpdateRegimePair

SpecPair == InitPair /\ [][NextPair]_vars

(***************************************************************************)
(* _apply_threshold applied repeatedly to one vector with a fixed cutoff   *)
(***************************************************************************)
MaxThresholdCalls == 2

\* the entries and the cutoffs, in 1/GridN, negative ones included
ThresholdEntries == {Frac(k, GridN) : k \in (0 - 1)..3}
ThresholdCutoffs == {Frac(k, GridN) : k \in (0 - 1)..2}

ThresholdConfig(threshold) ==
    [MsConfig(TRUE, "immediate", R(2), EmptyFn, NoCbConfig)
       EXCEPT !.min_weight_threshold = threshold]

InitThreshold ==
    /\ now = 1
    /\ breaker = BreakerInit
    /\ cb_call = CbCall("none", Zero, NoCbConfig, 1, FALSE, BreakerInit)
    /\ \E c \in ThresholdEntries, b \in ThresholdEntries, g \in ThresholdEntries :
         alloc = [AllocatorInit EXCEPT !.effective_weights = Weights(c, b, g)]
    /\ \E threshold \in ThresholdCutoffs :
         config = Config(MapX, ThresholdConfig(threshold))
    /\ ur_call = UrCall("none", config.multi_strategy, alloc, FALSE, NoResult)
    /\ ncalls = 0
    /\ InitController

ApplyThreshold ==
    /\ ncalls < MaxThresholdCalls
    /\ alloc' = [alloc EXCEPT !.effective_weights =
                    apply_threshold(alloc.effective_weights,
                                    config.multi_strategy.min_weight_threshold)]
    /\ ncalls' = ncalls + 1
    /\ UNCHANGED <<now, breaker, cb_call, ur_call, config, ctrl>>

NextThreshold == ApplyThreshold

SpecThreshold == InitThreshold /\ [][NextThreshold]_vars

(***************************************************************************)
(* _stop_strategies step by step: the loop over the IDs, then the status   *)
(***************************************************************************)
\* the mutant of the loop that breaks off at the first ID that did not stop
StopRemainingUntilFailure(ids, attempted, failed) ==
    IF failed # {} THEN {} ELSE ids \ attempted

\* the IDs the loop of _stop_strategies still has to go through
StopRemaining(ids, attempted, failed) == ids \ attempted

\* the locals of one thread in _stop_strategies(ids) and, for the regime
\* tick, in the _start_strategies(start_ids) that follows it
StopLocals(ids, then_start, start_ids) ==
    [ids |-> ids, attempted |-> {}, failed |-> {}, persisted |-> FALSE,
     raised |-> FALSE, then_start |-> then_start, start_ids |-> start_ids,
     start_attempted |-> {}, start_failed |-> {}]

NoCommand == StopLocals({}, FALSE, {})

InitStop ==
    /\ now = 1
    /\ breaker = BreakerInit
    /\ cb_call = CbCall("none", Zero, NoCbConfig, 1, FALSE, BreakerInit)
    /\ alloc = AllocatorInit
    /\ ur_call = UrCall("none", NoMsConfig, AllocatorInit, FALSE, NoResult)
    /\ config = Config(MapX, NoMsConfig)
    /\ ncalls = 0
    /\ faults = TRUE
    /\ \E running \in SUBSET (1..3) :
         /\ executor = [running |-> running, dead |-> {}]
         /\ db_status = [sid \in Ids |-> IF sid \in running THEN "running"
                                         ELSE "stopped"]
    /\ \E ids \in SUBSET (1..3) :
         /\ rt = [t \in {"r1", "m1"} |->
                    IF t = "r1" THEN StopLocals(ids, FALSE, {}) ELSE NoCommand]
         /\ pc = [t \in RegimeThreads \cup MonitorThreads |->
                    IF t # "r1" THEN "idle"
                    ELSE IF ids = {} THEN "s_done" ELSE "s_loop"]
    /\ mt = MonitorLocalsInit
    /\ run_lock = [regime |-> Free, monitor |-> Free]
    /\ alloc_lock = Free
    /\ obs = ObsInit

\* one pass of the loop: executor.stop_strategy(sid); it returns False for
\* an ID that is not running and when update_strategy_status raises, and the
\* loop ignores what it returns
StopOne(t) ==
    /\ pc[t] = "s_loop"
    /\ LET remaining == StopRemaining(rt[t].ids, rt[t].attempted, rt[t].failed)
       IN IF remaining = {}
          THEN /\ pc' = [pc EXCEPT ![t] = "s_persist"]
               /\ UNCHANGED <<rt, executor, db_status>>
          ELSE \E status_raises \in FailureChoices :
                 LET sid == MinOf(remaining)
                     r == IF status_raises /\ sid \in executor.running
                          THEN [ex |-> executor, db |-> db_status, ok |-> FALSE]
                          ELSE stop_strategy(executor, db_status, sid)
                 IN /\ executor' = r.ex
                    /\ db_status' = r.db
                    /\ rt' = [rt EXCEPT
                                ![t].attempted = @ \cup {sid},
                                ![t].failed = IF r.ok THEN @ ELSE @ \cup {sid}]
                    /\ UNCHANGED pc
    /\ UNCHANGED <<now, breaker, cb_call, alloc, ur_call, config, ncalls, faults,
                   mt, run_lock, alloc_lock, obs>>

\* service.batch_stop_strategies(ids)
StopPersist(t) ==
    /\ pc[t] = "s_persist"
    /\ \E persist_fails \in FailureChoices :
        IF persist_fails
        THEN /\ rt' = [rt EXCEPT ![t].raised = TRUE]
             /\ pc' = [pc EXCEPT ![t] = "s_done"]
             /\ UNCHANGED db_status
        ELSE /\ rt' = [rt EXCEPT ![t].persisted = TRUE]
             /\ db_status' = PersistStatus(db_status, rt[t].ids, "stopped")
             /\ pc' = [pc EXCEPT ![t] = IF rt[t].then_start THEN "st_persist"
                                        ELSE "s_done"]
    /\ UNCHANGED <<now, breaker, cb_call, alloc, ur_call, config, ncalls, faults,
                   executor, mt, run_lock, alloc_lock, obs>>

NextStop == StopOne("r1") \/ StopPersist("r1")

SpecStop == InitStop /\ [][NextStop]_vars

(***************************************************************************)
(* The start/stop application of a regime tick and the emergency stop of   *)
(* a monitor tick, running concurrently, each step by step                 *)
(***************************************************************************)
\* service.batch_start_strategies(ids), when there are IDs to start
StartPersist(t) ==
    /\ pc[t] = "st_persist"
    /\ IF rt[t].start_ids = {}
       THEN /\ pc' = [pc EXCEPT ![t] = "s_done"]
            /\ UNCHANGED db_status
       ELSE /\ db_status' = PersistStatus(db_status, rt[t].start_ids, "running")
            /\ pc' = [pc EXCEPT ![t] = "st_loop"]
    /\ UNCHANGED <<now, breaker, cb_call, alloc, ur_call, config, ncalls, faults,
                   executor, rt, mt, run_lock, alloc_lock, obs>>

\* one pass of the loop: executor.start_strategy(sid)
StartOne(t) ==
    /\ pc[t] = "st_loop"
    /\ LET remaining == rt[t].start_ids \ rt[t].start_attempted
       IN IF remaining = {}
          THEN /\ pc' = [pc EXCEPT ![t] = "st_rollback"]
               /\ UNCHANGED <<rt, executor>>
          ELSE LET sid == MinOf(remaining)
                   r == start_strategy(executor, sid)
               IN /\ executor' = r.ex
                  /\ rt' = [rt EXCEPT
                              ![t].start_attempted = @ \cup {sid},
                              ![t].start_failed = IF r.ok THEN @ ELSE @ \cup {sid}]
                  /\ UNCHANGED pc
    /\ UNCHANGED <<now, breaker, cb_call, alloc, ur_call, config, ncalls, faults,
                   db_status, mt, run_lock, alloc_lock, obs>>

\* service.batch_stop_strategies(failed_ids), when an ID did not start
StartRollback(t) ==
    /\ pc[t] = "st_rollback"
    /\ db_status' = PersistStatus(db_status, rt[t].start_failed, "stopped")
    /\ pc' = [pc EXCEPT ![t] = "s_done"]
    /\ UNCHANGED <<now, breaker, cb_call, alloc, ur_call, config, ncalls, faults,
                   executor, rt, mt, run_lock, alloc_lock, obs>>

\* the runtime and the status agree at the start; the regime tick stops
\* running managed IDs and starts managed IDs that do not run, the monitor
\* tick stops every managed ID
InitRace ==
    /\ now = 1
    /\ breaker = BreakerInit
    /\ cb_call = CbCall("none", Zero, NoCbConfig, 1, FALSE, BreakerInit)
    /\ alloc = AllocatorInit
    /\ ur_call = UrCall("none", NoMsConfig, AllocatorInit, FALSE, NoResult)
    /\ config = Config(MapX, NoMsConfig)
    /\ ncalls = 0
    /\ faults = FALSE
    /\ \E running \in SUBSET (1..3) :
         /\ executor = [running |-> running, dead |-> {}]
         /\ db_status = [sid \in Ids |-> IF sid \in running THEN "running"
                                         ELSE "stopped"]
         /\ \E ids_to_stop \in SUBSET running, ids_to_start \in SUBSET ((1..3) \ running) :
              /\ rt = [t \in {"r1", "m1"} |->
                         IF t = "r1" THEN StopLocals(ids_to_stop, TRUE, ids_to_start)
                         ELSE StopLocals(ManagedIdsOf(MapX), FALSE, {})]
              /\ pc = [t \in RegimeThreads \cup MonitorThreads |->
                         IF t = "m1" THEN "s_loop"
                         ELSE IF t # "r1" THEN "idle"
                         ELSE IF ids_to_stop = {} THEN "st_persist" ELSE "s_loop"]
    /\ mt = MonitorLocalsInit
    /\ run_lock = [regime |-> Free, monitor |-> Free]
    /\ alloc_lock = Free
    /\ obs = ObsInit

NextRace ==
    \/ StopOne("r1") \/ StopPersist("r1")
    \/ StartPersist("r1") \/ StartOne("r1") \/ StartRollback("r1")
    \/ StopOne("m1") \/ StopPersist("m1")

SpecRace == InitRace /\ [][NextRace]_vars

(***************************************************************************)
(* The blocking locks: PortfolioAllocator._lock, CircuitBreaker._lock and  *)
(* TradingExecutor.lock, each a non-reentrant threading.Lock, and the      *)
(* order in which each operation takes and gives them back                 *)
(***************************************************************************)
Locks == {"allocator", "breaker", "runtime"}

Acq(l) == [do |-> "acquire", lock |-> l]
Rel(l) == [do |-> "release", lock |-> l]

\* the mutant in which start_strategy reads the allocator under its lock
\* while it holds the runtime lock
LockProgramStartReadsAllocator(op) ==
    CASE op = "update_regime" ->
           <<Acq("allocator"), Acq("runtime"), Rel("runtime"),
             Acq("runtime"), Rel("runtime"), Rel("allocator")>>
      [] op = "check" -> <<Acq("breaker"), Rel("breaker")>>
      [] op = "start_strategy" ->
           <<Acq("runtime"), Acq("allocator"), Rel("allocator"), Rel("runtime")>>
      [] op \in {"stop_strategy", "loop_exit"} ->
           <<Acq("runtime"), Rel("runtime")>>
      [] op = "get_allocated_capital" -> <<>>

\* what an operation does with the locks, in program order: update_regime
\* holds the allocator lock and inside it _get_running_ids takes the runtime
\* lock twice (for the diff and for running_count); check holds the breaker
\* lock; start_strategy, stop_strategy and the clean-up of a strategy loop
\* hold the runtime lock; get_allocated_capital takes no lock
LockProgram(op) ==
    CASE op = "update_regime" ->
           <<Acq("allocator"), Acq("runtime"), Rel("runtime"),
             Acq("runtime"), Rel("runtime"), Rel("allocator")>>
      [] op = "check" -> <<Acq("breaker"), Rel("breaker")>>
      [] op \in {"start_strategy", "stop_strategy", "loop_exit"} ->
           <<Acq("runtime"), Rel("runtime")>>
      [] op = "get_allocated_capital" -> <<>>

\* r1 is a regime tick, m1 a monitor tick, x1 a strategy thread or a caller of
\* the runtime
LockThreads == {"r1", "m1", "x1"}

ThreadOps(t) ==
    IF t = "r1" THEN {"update_regime", "stop_strategy", "start_strategy"}
    ELSE IF t = "m1" THEN {"check", "stop_strategy"}
    ELSE {"start_strategy", "stop_strategy", "loop_exit", "get_allocated_capital"}

InitLocks ==
    /\ now = 1
    /\ breaker = BreakerInit
    /\ cb_call = CbCall("none", Zero, NoCbConfig, 1, FALSE, BreakerInit)
    /\ alloc = AllocatorInit
    /\ ur_call = UrCall("none", NoMsConfig, AllocatorInit, FALSE, NoResult)
    /\ config = Config(MapX, NoMsConfig)
    /\ ncalls = 0
    /\ faults = FALSE
    /\ executor = ExecutorInit
    /\ db_status = DbStatusInit
    /\ pc = [t \in LockThreads |-> "idle"]
    /\ rt = [t \in LockThreads |-> [op |-> "none", at |-> 1]]
    /\ mt = MonitorLocalsInit
    /\ run_lock = [regime |-> Free, monitor |-> Free]
    /\ alloc_lock = Free
    /\ obs = [l \in Locks |-> Free]

\* the thread enters an operation
LockBegin(t) ==
    /\ pc[t] = "idle"
    /\ \E op \in ThreadOps(t) :
        /\ rt' = [rt EXCEPT ![t] = [op |-> op, at |-> 1]]
        /\ pc' = [pc EXCEPT ![t] = "in_op"]
    /\ UNCHANGED <<now, breaker, cb_call, alloc, ur_call, config, ncalls, faults,
                   executor, db_status, mt, run_lock, alloc_lock, obs>>

\* the next lock event of the operation: a blocking acquire waits until the
\* lock is free, whoever holds it
LockStep(t) ==
    /\ pc[t] = "in_op"
    /\ LET prog == LockProgram(rt[t].op)
       IN IF rt[t].at > Len(prog)
          THEN /\ pc' = [pc EXCEPT ![t] = "idle"]
               /\ UNCHANGED <<rt, obs>>
          ELSE LET ev == prog[rt[t].at]
               IN /\ ev.do = "acquire" => obs[ev.lock] = Free
                  /\ obs' = [obs EXCEPT ![ev.lock] =
                                IF ev.do = "acquire" THEN t ELSE Free]
                  /\ rt' = [rt EXCEPT ![t].at = @ + 1]
                  /\ UNCHANGED pc
    /\ UNCHANGED <<now, breaker, cb_call, alloc, ur_call, config, ncalls, faults,
                   executor, db_status, mt, run_lock, alloc_lock>>

NextLocks == \E t \in LockThreads : LockBegin(t) \/ LockStep(t)

SpecLocks == InitLocks /\ [][NextLocks]_vars

(***************************************************************************)
(* get_portfolio_allocator and get_circuit_breaker called from several     *)
(* threads; an instance is named by the number of its construction and 0   *)
(* is None                                                                 *)
(***************************************************************************)
Singletons == {"allocator", "breaker"}

\* the mutant of the test under the lock that always constructs
InstanceIsNoneAlways(instance) == TRUE

\* `_allocator_instance is None`, `_breaker_instance is None`
InstanceIsNone(instance) == instance = 0

GetterThreads == RegimeThreads \cup MonitorThreads

InitSingleton ==
    /\ now = 1
    /\ breaker = BreakerInit
    /\ cb_call = CbCall("none", Zero, NoCbConfig, 1, FALSE, BreakerInit)
    /\ alloc = AllocatorInit
    /\ ur_call = UrCall("none", NoMsConfig, AllocatorInit, FALSE, NoResult)
    /\ config = Config(EmptyFn, NoMsConfig)
    /\ ncalls = 0
    /\ faults = FALSE
    /\ executor = ExecutorInit
    /\ db_status = DbStatusInit
    /\ pc = [t \in GetterThreads |-> "idle"]
    /\ rt = [t \in GetterThreads |-> [which |-> "allocator", got |-> 0]]
    /\ mt = MonitorLocalsInit
    /\ run_lock = [regime |-> Free, monitor |-> Free]
    /\ alloc_lock = Free
    /\ obs = [instance |-> [w \in Singletons |-> 0],
              constructed |-> [w \in Singletons |-> 0],
              lock |-> [w \in Singletons |-> Free]]

\* a thread calls one of the two accessors
GetCall(t) ==
    /\ pc[t] = "idle"
    /\ \E w \in Singletons : rt' = [rt EXCEPT ![t] = [which |-> w, got |-> 0]]
    /\ pc' = [pc EXCEPT ![t] = "g_test"]
    /\ UNCHANGED <<now, breaker, cb_call, alloc, ur_call, config, ncalls, faults,
                   executor, db_status, mt, run_lock, alloc_lock, obs>>

\* the test outside the lock
GetTest(t) ==
    /\ pc[t] = "g_test"
    /\ pc' = [pc EXCEPT ![t] = IF InstanceIsNone(obs.instance[rt[t].which])
                               THEN "g_acquire" ELSE "g_return"]
    /\ UNCHANGED <<now, breaker, cb_call, alloc, ur_call, config, ncalls, faults,
                   executor, db_status, mt, run_lock, alloc_lock, rt, obs>>

\* with _allocator_lock / with _breaker_lock
GetAcquire(t) ==
    /\ pc[t] = "g_acquire"
    /\ obs.lock[rt[t].which] = Free
    /\ obs' = [obs EXCEPT !.lock[rt[t].which] = t]
    /\ pc' = [pc EXCEPT ![t] = "g_locked"]
    /\ UNCHANGED <<now, breaker, cb_call, alloc, ur_call, config, ncalls, faults,
                   executor, db_status, mt, run_lock, alloc_lock, rt>>

\* the test under the lock and the construction
GetConstruct(t) ==
    /\ pc[t] = "g_locked"
    /\ LET w == rt[t].which
       IN obs' = IF InstanceIsNone(obs.instance[w])
                 THEN [obs EXCEPT !.instance[w] = obs.constructed[w] + 1,
                                  !.constructed[w] = @ + 1]
                 ELSE obs
    /\ pc' = [pc EXCEPT ![t] = "g_release"]
    /\ UNCHANGED <<now, breaker, cb_call, alloc, ur_call, config, ncalls, faults,
                   executor, db_status, mt, run_lock, alloc_lock, rt>>

GetRelease(t) ==
    /\ pc[t] = "g_release"
    /\ obs' = [obs EXCEPT !.lock[rt[t].which] = Free]
    /\ pc' = [pc EXCEPT ![t] = "g_return"]
    /\ UNCHANGED <<now, breaker, cb_call, alloc, ur_call, config, ncalls, faults,
                   executor, db_status, mt, run_lock, alloc_lock, rt>>

\* return _allocator_instance: the global is read again
GetReturn(t) ==
    /\ pc[t] = "g_return"
    /\ rt' = [rt EXCEPT ![t].got = obs.instance[rt[t].which]]
    /\ pc' = [pc EXCEPT ![t] = "g_done"]
    /\ UNCHANGED <<now, breaker, cb_call, alloc, ur_call, config, ncalls, faults,
                   executor, db_status, mt, run_lock, alloc_lock, obs>>

NextSingleton ==
    \E t \in GetterThreads :
        \/ GetCall(t) \/ GetTest(t) \/ GetAcquire(t)
        \/ GetConstruct(t) \/ GetRelease(t) \/ GetReturn(t)

SpecSingleton == InitSingleton /\ [][NextSingleton]_vars

(***************************************************************************)
(* Properties                                                              *)
(***************************************************************************)
\* the drawdown check() computes for the last call, from the peak it tracks
CallDrawdown == compute_drawdown_pct(TrackPeak(cb_call.pre, cb_call.equity))

\* the minutes since the trigger at the last call
CallElapsed == cb_call.at - TriggerTimeOrZero(cb_call.pre)

CallRecovers ==
    /\ LT(CallDrawdown, cb_call.cfg.recovery_threshold_pct)
    /\ CallElapsed >= cb_call.cfg.cooldown_minutes

\* C1: while the breaker is Triggered no regime tick starts a managed
\* strategy: a tick that began with the breaker triggered and finds it still
\* triggered when it starts strategies has started none.
C1_NoStartWhileTriggered == ~(rt.entered_triggered /\ rt.started_triggered)

\* C2 as stated: a check call made while the breaker is triggered returns true
\* and leaves it triggered unless at that call the drawdown is below the
\* recovery threshold and the cooldown has elapsed.
C2_TriggeredUntilRecovery ==
    (cb_call.op = "check" /\ cb_call.pre.is_triggered /\ ~CallRecovers)
        => (cb_call.ret /\ breaker.is_triggered)

\* C2: a check call made with the breaker enabled while it is triggered
\* returns true and leaves it triggered unless at that call the drawdown is
\* strictly below the recovery threshold and the cooldown has elapsed, and
\* then it returns false and clears the trigger; a check call made with the
\* breaker disabled returns false and leaves is_triggered as it was.
C2_EnabledTriggeredUntilRecovery ==
    (cb_call.op = "check" /\ cb_call.pre.is_triggered) =>
        IF ~cb_call.cfg.enabled
        THEN ~cb_call.ret /\ breaker = cb_call.pre
        ELSE IF CallRecovers
        THEN ~cb_call.ret /\ ~breaker.is_triggered
        ELSE cb_call.ret /\ breaker.is_triggered
             /\ breaker.trigger_time = cb_call.pre.trigger_time

\* the drawdown has recovered but the cooldown has not elapsed, and the call
\* returned true
C2_Witness ==
    /\ cb_call.op = "check" /\ cb_call.cfg.enabled /\ cb_call.pre.is_triggered
    /\ LT(CallDrawdown, cb_call.cfg.recovery_threshold_pct)
    /\ CallElapsed < cb_call.cfg.cooldown_minutes
    /\ cb_call.ret /\ breaker.is_triggered

\* C3: the monitor tick issues the emergency stop exactly on the ticks whose
\* check moved the breaker from Normal to Triggered.
C3_EmergencyStopOnRisingEdge ==
    mt.checked =>
        (((\E t \in MonitorThreads : pc[t] = "m_estop") \/ mt.estop) <=> mt.rose)

\* C4: of each task at most one invocation is in the tick body, the one that
\* holds the task's lock; an invocation that found the lock taken does
\* nothing but return.
C4_OneInBody ==
    /\ Cardinality({t \in RegimeThreads : pc[t] \in RegimeBody}) <= 1
    /\ Cardinality({t \in MonitorThreads : pc[t] \in MonitorBody}) <= 1
    /\ \A t \in RegimeThreads : pc[t] \in RegimeBody <=> run_lock.regime = t
    /\ \A t \in MonitorThreads : pc[t] \in MonitorBody <=> run_lock.monitor = t

C4_SkippedOnlyReturns ==
    \A t \in RegimeThreads \cup MonitorThreads :
        pc[t] = "skipped" =>
            /\ pc'[t] \in {"skipped", "idle"}
            /\ pc'[t] = "idle" =>
                 UNCHANGED <<breaker, alloc, executor, db_status, rt, mt,
                             run_lock, alloc_lock>>

C4_OverlapSkipped == []C4_OneInBody /\ [][C4_SkippedOnlyReturns]_vars

\* an invocation was skipped while another one of the same task is in the body
C4_Witness ==
    \E t \in RegimeThreads, u \in RegimeThreads :
        pc[t] = "skipped" /\ pc[u] \in RegimeBody \ {"r_inner"}

\* C5: no invocation of a run() ends by raising.
C5_NoExceptionEscapes == rt.outcome # "raised" /\ mt.outcome # "raised"

\* C6: what a reader saw while update_regime was in progress is the
\* allocator as it was before the call or as it is after it.
C6_ReaderSeesPreOrPost == obs.settled => obs.view \in {obs.pre, obs.post}

\* C7: the IDs a regime tick stops and starts are managed IDs, and the
\* running strategy that is not in the map stays registered with the runtime.
C7_OnlyManagedIds ==
    /\ (rt.stopped \cup rt.started) \subseteq ManagedIdsOf(rt.symbol_strategies)
    /\ MaxId \in executor.running

\* a multi-strategy tick is about to stop strategies while the unmanaged one runs
C7_Witness ==
    /\ rt.mode = "multi" /\ rt.stopped # {}
    /\ MaxId \in get_running_ids(executor)
    /\ MaxId \notin ManagedIdsOf(rt.symbol_strategies)

\* C8: check and reset never lower peak_equity, and an enabled check leaves
\* it at the larger of its previous value and the equity passed in.
C8_PeakNeverDecreases ==
    /\ cb_call.op \in {"check", "reset"} =>
           LE(cb_call.pre.peak_equity, breaker.peak_equity)
    /\ (cb_call.op = "check" /\ cb_call.cfg.enabled) =>
           breaker.peak_equity = RMax(cb_call.pre.peak_equity, cb_call.equity)

\* an enabled check was passed an equity below the peak
C8_Witness ==
    /\ cb_call.op = "check" /\ cb_call.cfg.enabled
    /\ LT(Zero, cb_call.equity)
    /\ LT(cb_call.equity, cb_call.pre.peak_equity)
    /\ breaker.peak_equity = cb_call.pre.peak_equity

\* C9: an enabled check on a breaker that is not triggered triggers it,
\* records the time of the call and returns true exactly when the drawdown is
\* at least max_drawdown_pct; otherwise the breaker stays Normal and the call
\* returns false.
C9_TriggersAtThreshold ==
    (cb_call.op = "check" /\ cb_call.cfg.enabled /\ ~cb_call.pre.is_triggered) =>
        IF LE(cb_call.cfg.max_drawdown_pct, CallDrawdown)
        THEN cb_call.ret /\ breaker.is_triggered /\ breaker.trigger_time = cb_call.at
        ELSE ~cb_call.ret /\ ~breaker.is_triggered /\ breaker.trigger_time = NoTime

\* the drawdown is exactly the threshold and the call triggered
C9_Witness ==
    /\ cb_call.op = "check" /\ cb_call.cfg.enabled /\ ~cb_call.pre.is_triggered
    /\ CallDrawdown = cb_call.cfg.max_drawdown_pct
    /\ cb_call.ret /\ breaker.is_triggered

\* the cap of a strategy after the last update_regime call
AllocationCap(sid) ==
    Mul(Get(alloc.strategy_initial_capital, sid, Zero),
        ur_call.ms_cfg.max_allocation_ratio)

\* C10: after an update_regime call every strategy whose initial capital is
\* known holds at most that capital times max_allocation_ratio.
C10_AllocationCapped ==
    ur_call.op = "update_regime" =>
        \A sid \in DOMAIN alloc.strategy_allocation :
            LT(Zero, Get(alloc.strategy_initial_capital, sid, Zero)) =>
                LE(alloc.strategy_allocation[sid], AllocationCap(sid))

\* one strategy sits exactly at its cap while another is below its own
C10_Witness ==
    /\ ur_call.op = "update_regime"
    /\ \E sid \in DOMAIN alloc.strategy_allocation,
          other \in DOMAIN alloc.strategy_allocation :
        /\ LT(Zero, Get(alloc.strategy_initial_capital, sid, Zero))
        /\ alloc.strategy_allocation[sid] = AllocationCap(sid)
        /\ LT(Zero, Get(alloc.strategy_initial_capital, other, Zero))
        /\ LT(alloc.strategy_allocation[other], AllocationCap(other))
        /\ LT(Zero, alloc.strategy_allocation[other])

\* the allocation of a strategy after and before the last update_regime call
NewAlloc(sid) == Get(alloc.strategy_allocation, sid, Zero)

OldAlloc(sid) == Get(ur_call.pre.strategy_allocation, sid, Zero)

\* C11: after an update_regime call a managed strategy whose allocation fell
\* to a still positive value is frozen, one whose positive allocation did not
\* fall is not frozen, and one with no allocation is not in the frozen set.
C11_FreezeRule ==
    ur_call.op = "update_regime" =>
        \A sid \in get_all_managed_ids(alloc) \cup alloc.frozen_strategies :
            /\ (LT(Zero, NewAlloc(sid)) /\ LT(NewAlloc(sid), OldAlloc(sid)))
                   => sid \in alloc.frozen_strategies
            /\ (LT(Zero, NewAlloc(sid)) /\ LE(OldAlloc(sid), NewAlloc(sid)))
                   => sid \notin alloc.frozen_strategies
            /\ LE(NewAlloc(sid), Zero) => sid \notin alloc.frozen_strategies

\* the three cases of the rule in one call: one strategy was frozen by a
\* decrease, one frozen before was released, one frozen before was closed
C11_Witness ==
    /\ ur_call.op = "update_regime"
    /\ \E sid \in get_all_managed_ids(alloc) :
        /\ LT(Zero, NewAlloc(sid)) /\ LT(NewAlloc(sid), OldAlloc(sid))
        /\ sid \in alloc.frozen_strategies
    /\ \E sid \in ur_call.pre.frozen_strategies :
        /\ LT(Zero, NewAlloc(sid)) /\ LE(OldAlloc(sid), NewAlloc(sid))
        /\ sid \notin alloc.frozen_strategies

\* C12 as stated: a frozen strategy stays frozen over a call that leaves its
\* allocation positive and no larger than it was, since it has then not
\* recovered above the value it had before the decrease.
C12_FrozenUntilRecovery ==
    ur_call.op = "update_regime" =>
        \A sid \in ur_call.pre.frozen_strategies :
            (LT(Zero, NewAlloc(sid)) /\ LE(NewAlloc(sid), OldAlloc(sid)))
                => sid \in alloc.frozen_strategies

\* C12: a frozen strategy stays frozen over a call exactly when that call
\* lowers its allocation again to a still positive value; a call that leaves
\* the allocation unchanged or raises it releases the strategy, and a call
\* that takes the allocation to zero removes it from the frozen set.
C12_FrozenWhileDecreasing ==
    ur_call.op = "update_regime" =>
        \A sid \in ur_call.pre.frozen_strategies :
            sid \in alloc.frozen_strategies
                <=> (LT(Zero, NewAlloc(sid)) /\ LT(NewAlloc(sid), OldAlloc(sid)))

\* a frozen strategy was released by a call that left its allocation unchanged
C12_Witness ==
    /\ ur_call.op = "update_regime"
    /\ \E sid \in ur_call.pre.frozen_strategies :
        /\ LT(Zero, NewAlloc(sid)) /\ NewAlloc(sid) = OldAlloc(sid)
        /\ sid \notin alloc.frozen_strategies

\* the target vector update_regime computed for a regime at the last call
CallTarget(regime) ==
    normalize_weights(apply_threshold(get_target_weights(regime, ur_call.ms_cfg),
                                      ur_call.ms_cfg.min_weight_threshold))

\* the effective vectors the last call moved from a prior vector: the vector
\* before the call, the vector after it and the target of the call
MovedVectors ==
    {[old |-> ur_call.pre.effective_weights, new |-> alloc.effective_weights,
      target |-> CallTarget(alloc.current_regime)] :
         x \in {y \in {1} : /\ DOMAIN ur_call.pre.effective_weights # {}
                            /\ DOMAIN alloc.regime_per_symbol = {}}}
    \cup {[old |-> ur_call.pre.effective_weights_per_symbol[symbol],
           new |-> alloc.effective_weights_per_symbol[symbol],
           target |-> CallTarget(Get(alloc.regime_per_symbol, symbol,
                                     alloc.current_regime))] :
            symbol \in {sym \in DOMAIN alloc.effective_weights_per_symbol
                                \cap DOMAIN ur_call.pre.effective_weights_per_symbol :
                          DOMAIN ur_call.pre.effective_weights_per_symbol[sym] # {}}}

GradualCall ==
    ur_call.op = "update_regime" /\ ur_call.ms_cfg.transition.mode = "gradual"

CallMaxStep == ur_call.ms_cfg.transition.max_step_per_tick

Ceil(r) == (r.n + r.d - 1) \div r.d

\* the largest distance of a style from its target in the start vector
StartDistance ==
    MaxOver([st \in Styles |->
               RAbs(Sub(alloc.target_weights[st],
                        ur_call.pre.effective_weights[st]))], Styles)

Normalized(weights) ==
    \/ \A k \in DOMAIN weights : weights[k] = Zero
    \/ SumOver(PositivePart(weights), DOMAIN weights) = One

\* C15: after every update_regime call the target vector, the global
\* effective vector and every per-symbol effective vector are normalized.
C15_VectorsNormalized ==
    ur_call.op = "update_regime" =>
        /\ Normalized(alloc.target_weights)
        /\ Normalized(alloc.effective_weights)
        /\ \A symbol \in DOMAIN alloc.effective_weights_per_symbol :
               Normalized(alloc.effective_weights_per_symbol[symbol])

\* both paths: a call whose configured weights did not sum to 1 after the
\* threshold stored a target that does, and a gradual call stored an
\* effective vector that sums to 1 although the stepped vector did not
C15_Witness ==
    /\ GradualCall
    /\ \E v \in MovedVectors :
        /\ SumOver(SteppedWeights(v.old, v.target, CallMaxStep), Styles) # One
        /\ SumOver(v.new, Styles) = One
        /\ \E regime \in Regimes :
            /\ v.target = CallTarget(regime)
            /\ SumOver(apply_threshold(get_target_weights(regime, ur_call.ms_cfg),
                                       ur_call.ms_cfg.min_weight_threshold),
                       Styles) # One

\* the IDs whose thread the step started
NewlyStarted == get_running_ids(executor') \ get_running_ids(executor)

\* C16: when _start_strategies returns, every ID of its list that the runtime
\* started has the status "running" and every ID the runtime refused has the
\* status "stopped"; when the status update that precedes the runtime
\* commands fails, no start has been commanded.
C16_StartRollback ==
    [][\A t \in RegimeThreads :
         pc[t] = "r_start" =>
            /\ pc'[t] = "r_exit" =>
                /\ rt'.failed = rt.started \ NewlyStarted
                /\ \A sid \in rt.started :
                     db_status'[sid] =
                         IF sid \in NewlyStarted THEN "running" ELSE "stopped"
            /\ (pc'[t] = "idle" /\ rt'.outcome = "raised") =>
                /\ NewlyStarted = {}
                /\ db_status' = db_status]_vars

\* _start_strategies has returned from a list of which the runtime started
\* one ID and refused another
C16_Witness ==
    /\ pc["r1"] = "r_exit"
    /\ \E sid \in rt.started \ rt.failed :
        db_status[sid] = "running" /\ sid \in get_running_ids(executor)
    /\ \E sid \in rt.failed :
        db_status[sid] = "stopped" /\ sid \notin get_running_ids(executor)

\* C17: an ID whose start the runtime rejected is not in the list of started
\* IDs the regime tick ends with, and the start of every other ID of the list
\* has been commanded.
C17_RejectedNotInStarted ==
    [][\A t \in RegimeThreads :
         (pc[t] = "r_start" /\ pc'[t] = "r_exit") =>
            /\ rt'.started \cap rt'.failed = {}
            /\ \A sid \in rt'.started \ rt'.failed :
                 sid \in get_running_ids(executor')]_vars

\* a step of thread t
StepOf(t) == pc'[t] # pc[t]

\* no mapping in the configuration, and the last regime tick found none in
\* the database either
NoMappingFound ==
    /\ DOMAIN config.symbol_strategies = {}
    /\ rt.outcome = "noop"
    /\ \A t \in RegimeThreads : pc[t] = "idle"

\* a regime tick that finds no mapping goes straight to its return without a
\* start, a stop or a change of the allocator
NoMappingRegimeNoop ==
    \A t \in RegimeThreads :
        /\ (StepOf(t) /\ pc[t] = "r_inner" /\ DOMAIN rt'.symbol_strategies = {})
               => /\ pc'[t] \in {"r_exit", "idle"}
                  /\ UNCHANGED <<alloc, executor, db_status>>
        /\ (StepOf(t) /\ pc[t] \notin {"idle", "skipped", "r_inner"}
                      /\ DOMAIN rt.symbol_strategies = {})
               => /\ pc[t] = "r_exit"
                  /\ UNCHANGED <<alloc, executor, db_status>>

\* C18 as stated: without a mapping a regime tick starts and stops nothing
\* and leaves the allocator unchanged, and a monitor tick stops no strategy.
C18_NoMappingNoop ==
    [][/\ NoMappingRegimeNoop
       /\ \A t \in MonitorThreads :
            (StepOf(t) /\ NoMappingFound) => UNCHANGED <<executor, db_status>>]_vars

\* the breaker configurations with enabled false
DisabledCbConfigs == {[cfg EXCEPT !.enabled = FALSE] : cfg \in CbConfigs}

\* a check call with a disabled configuration, made on the breaker as it is
\* now with any equity, returns false and changes no field
DisabledCheckInert ==
    \A cfg \in DisabledCbConfigs, equity \in Equities :
        check(breaker, equity, cfg, now) = [b |-> breaker, ret |-> FALSE]

\* the switches the monitor tick read
MonitorDisabled(m) ==
    ~m.config.multi_strategy.enabled \/ ~m.config.multi_strategy.circuit_breaker.enabled

\* a monitor tick that reads a disabled switch goes to its return without a
\* call of check and without an emergency stop
DisabledMonitorSkips ==
    \A t \in MonitorThreads :
        /\ (StepOf(t) /\ pc[t] = "m_inner" /\ MonitorDisabled(mt'))
               => /\ pc'[t] = "m_exit"
                  /\ UNCHANGED <<breaker, executor, db_status>>
        /\ (StepOf(t) /\ pc[t] \notin {"idle", "skipped", "m_inner"}
                      /\ MonitorDisabled(mt))
               => /\ pc[t] = "m_exit"
                  /\ ~mt.checked /\ ~mt.estop
                  /\ UNCHANGED <<breaker, executor, db_status>>

\* C19: check with circuit_breaker.enabled false returns false and leaves the
\* peak, the last equity, the triggered flag and the trigger time unchanged,
\* and a monitor tick with multi_strategy or circuit_breaker disabled calls
\* neither check nor the emergency stop.
C19_DisabledIsInert == [](DisabledCheckInert) /\ [][DisabledMonitorSkips]_vars

\* a monitor tick in multi-strategy mode with the breaker disabled is at its
\* return without a check although the allocator holds pools and strategies
\* are running
C19_Witness ==
    /\ pc["m1"] = "m_exit"
    /\ mt.config.multi_strategy.enabled
    /\ ~mt.config.multi_strategy.circuit_breaker.enabled
    /\ ~mt.checked
    /\ DOMAIN alloc.symbol_capital_pool # {}
    /\ get_running_ids(executor) \cap get_all_managed_ids(alloc) # {}

\* C20: after reset() the breaker is not triggered and has no trigger time,
\* whatever its state and drawdown were, and its peak and last equity are
\* what they were before the call.
C20_ResetToNormal ==
    cb_call.op = "reset" =>
        /\ ~breaker.is_triggered
        /\ breaker.trigger_time = NoTime
        /\ breaker.peak_equity = cb_call.pre.peak_equity
        /\ breaker.last_equity = cb_call.pre.last_equity

\* reset() was called on a triggered breaker whose drawdown was still at or
\* above the trigger threshold
C20_Witness ==
    /\ cb_call.op = "reset"
    /\ cb_call.pre.is_triggered /\ cb_call.pre.trigger_time # NoTime
    /\ LE(R(DefaultMaxDrawdownPct), compute_drawdown_pct(cb_call.pre))
    /\ ~breaker.is_triggered
    /\ LT(Zero, breaker.peak_equity)

\* C21: a call of a read query leaves the allocator as it was, and so does a
\* write to the map a query returned: the allocation table, the frozen set
\* and the weights of the allocator keep their values.
C21_QueriesAreCopies ==
    [][(obs'.settled /\ ncalls' = ncalls) => alloc' = alloc]_vars

\* the runtime has changed the allocation map it was given while the
\* allocator's table, which is not empty, is as it was
C21_Witness ==
    /\ obs.settled
    /\ obs.view.field = "strategy_allocation"
    /\ 1 \in DOMAIN alloc.strategy_allocation
    /\ LT(Zero, alloc.strategy_allocation[1])
    /\ obs.view.value = Put(alloc.strategy_allocation, 1, Zero)

\* the lists update_regime has just returned are the managed IDs without
\* allocation that are in running_ids, and the managed IDs with a positive
\* allocation that are not
DiffFrom(running_ids) ==
    /\ rt'.stopped = {sid \in get_all_managed_ids(alloc) :
                        /\ LE(Get(alloc.strategy_allocation, sid, Zero), Zero)
                        /\ sid \in running_ids}
    /\ rt'.started = {sid \in get_all_managed_ids(alloc) :
                        /\ LT(Zero, Get(alloc.strategy_allocation, sid, Zero))
                        /\ sid \notin running_ids}

\* update_regime returns to the regime tick
UpdateRegimeReturns(t) == pc[t] = "r_upd4" /\ pc'[t] = "r_stop"

C23_ThresholdChains ==
    /\ rt.primary \in {"vix", "vhsi", "civix"} =>
        LET v == VolValue(rt.primary, rt.macro)
            c == VolCutoffs(rt.rules, rt.primary)
        IN /\ v > c.panic => rt.regime = "panic"
           /\ (v <= c.panic /\ v > c.high_vol) => rt.regime = "high_vol"
           /\ (v <= c.panic /\ v <= c.high_vol /\ v < c.low_vol) => rt.regime = "low_vol"
           /\ (v <= c.panic /\ v <= c.high_vol /\ v >= c.low_vol) => rt.regime = "normal"
           /\ v = c.panic => rt.regime # "panic"
           /\ (v = c.high_vol /\ v <= c.panic) => rt.regime \notin {"panic", "high_vol"}
           /\ (v = c.low_vol /\ v <= c.high_vol) => rt.regime = "normal"
    /\ rt.primary = "fear_greed" =>
        LET v == Get(rt.macro, "fear_greed", DefaultFearGreed)
            extreme_fear == Rule(rt.rules, "fg_extreme_fear", FgExtremeFear)
            high_fear == Rule(rt.rules, "fg_high_fear", FgHighFear)
            low_greed == Rule(rt.rules, "fg_low_greed", FgLowGreed)
        IN /\ v < extreme_fear => rt.regime = "panic"
           /\ (v >= extreme_fear /\ v < high_fear) => rt.regime = "high_vol"
           /\ (v >= extreme_fear /\ v >= high_fear /\ v > low_greed) => rt.regime = "low_vol"
           /\ (v >= extreme_fear /\ v >= high_fear /\ v <= low_greed) => rt.regime = "normal"

C23_Witness ==
    /\ rt.primary = "vhsi"
    /\ "vhsi" \in DOMAIN rt.macro
    /\ rt.macro["vhsi"] = VolCutoffs(rt.rules, "vhsi").panic
    /\ rt.macro["vhsi"] # rt.macro["vix"]
    /\ rt.regime = "high_vol"

\* C24: in custom mode every failure outcome (no custom code, code rejected
\* as unsafe, an execution error or timeout, neither a valid regime nor a
\* numeric regime_score set) makes the resolver return normal instead of
\* raising, and any regime it returns is one of panic, high_vol, normal and
\* low_vol.
CustomFailure(sb) ==
    \/ ~sb.has_code
    \/ ~sb.is_safe
    \/ ~sb.success
    \/ sb.regime \notin Regimes /\ sb.score.kind # "number"

C24_CustomFallsBackToNormal ==
    rt.primary = "custom" =>
        /\ ~rt.raised
        /\ rt.regime \in {"panic", "high_vol", "normal", "low_vol"}
        /\ CustomFailure(rt.sandbox) => rt.regime = "normal"

C24_Witness ==
    /\ rt.primary = "custom"
    /\ rt.sandbox.has_code /\ rt.sandbox.is_safe /\ rt.sandbox.success
    /\ rt.sandbox.regime = "crash"
    /\ rt.sandbox.score.kind = "text"
    /\ rt.regime = "normal"
    /\ ~rt.raised

\* C25: in legacy mode (multi_strategy disabled) the target set is the IDs
\* of the styles that regime_to_style lists for each symbol's regime; the
\* tick stops exactly the running managed IDs outside the target and starts
\* exactly the target IDs that are not running, and issues no start and no
\* stop when the running managed set already equals the target.
\* The styles of a regime without an entry are given by unlisted_styles.
LegacyTarget(unlisted_styles) ==
    UNION {UNION {rt.symbol_strategies[sym][st] :
                    st \in IF rt.regime_per_symbol[sym] \in DOMAIN rt.config.regime_to_style
                           THEN rt.config.regime_to_style[rt.regime_per_symbol[sym]]
                           ELSE unlisted_styles} :
             sym \in DOMAIN rt.symbol_strategies}

LegacyTick(unlisted_styles) ==
    \A t \in RegimeThreads :
        /\ (pc[t] = "r_legacy" /\ pc'[t] \in {"r_stop", "r_exit"}) =>
            LET target == LegacyTarget(unlisted_styles)
                managed_running ==
                    executor.running \cap ManagedIdsOf(rt.symbol_strategies)
            IN /\ rt'.stopped = managed_running \ target
               /\ rt'.started = target \ executor.running
               /\ executor' = executor
               /\ managed_running = target =>
                    pc'[t] = "r_exit" /\ rt'.stopped = {} /\ rt'.started = {}
        /\ (pc[t] = "r_stop" /\ rt.mode = "legacy" /\ pc'[t] = "r_start") =>
            executor'.running = executor.running \ rt.stopped
        /\ (pc[t] = "r_start" /\ rt.mode = "legacy" /\ pc'[t] = "r_exit") =>
            executor'.running \ executor.running = rt.started \ rt'.failed

\* the statement as written: a regime without an entry has no styles
C25_LegacyDiffOfListedStyles == [][LegacyTick({})]_vars

\* the statement with the default of the code: a regime without an entry in
\* regime_to_style takes the balanced style
C25_LegacyDiffOfListedOrBalanced == [][LegacyTick({"balanced"})]_vars

C25_Witness ==
    /\ pc["r1"] = "r_stop"
    /\ rt.mode = "legacy"
    /\ rt.regime \in DOMAIN rt.config.regime_to_style
    /\ rt.stopped # {}
    /\ rt.started # {}
    /\ rt.stopped \subseteq executor.running
    /\ rt.started \cap executor.running = {}

\* C26: _apply_threshold is idempotent: for every weight vector and cutoff,
\* applying it twice with the same cutoff gives the same vector as applying
\* it once, and an entry equal to the cutoff is kept.
C26_ThresholdIdempotent ==
    [][(ncalls' = ncalls + 1) =>
        /\ ncalls >= 1 => alloc'.effective_weights = alloc.effective_weights
        /\ \A k \in DOMAIN alloc.effective_weights :
             alloc.effective_weights[k] = config.multi_strategy.min_weight_threshold
                => alloc'.effective_weights[k] = alloc.effective_weights[k]]_vars

C26_Witness ==
    /\ ncalls = MaxThresholdCalls
    /\ ur_call.pre.effective_weights # alloc.effective_weights
    /\ \E k \in DOMAIN alloc.effective_weights :
         /\ alloc.effective_weights[k] = config.multi_strategy.min_weight_threshold
         /\ alloc.effective_weights[k] # Zero
    /\ \E k \in DOMAIN alloc.effective_weights :
         /\ ur_call.pre.effective_weights[k] # Zero
         /\ alloc.effective_weights[k] = Zero

\* C27: with recovery_threshold_pct not above max_drawdown_pct, a check that
\* releases the breaker (Triggered to Normal) is never followed by a
\* re-trigger on the next check with the same equity: whenever the last call
\* was a releasing check, the same check made again, now or at any later
\* time, and once more after that, returns false and leaves the breaker
\* Normal.
ReleasedByCheck ==
    /\ cb_call.op = "check"
    /\ cb_call.pre.is_triggered
    /\ ~breaker.is_triggered

C27_NoRetriggerAfterRelease ==
    (/\ ReleasedByCheck
     /\ LE(cb_call.cfg.recovery_threshold_pct, cb_call.cfg.max_drawdown_pct)) =>
        \A t1 \in now..MaxNow :
            LET r1 == check(breaker, cb_call.equity, cb_call.cfg, t1)
            IN /\ ~r1.ret /\ ~r1.b.is_triggered
               /\ \A t2 \in t1..MaxNow :
                    LET r2 == check(r1.b, cb_call.equity, cb_call.cfg, t2)
                    IN ~r2.ret /\ ~r2.b.is_triggered

C27_Witness ==
    /\ ReleasedByCheck
    /\ cb_call.cfg.recovery_threshold_pct = cb_call.cfg.max_drawdown_pct
    /\ LT(Zero, compute_drawdown_pct(breaker))
    /\ breaker.last_equity = cb_call.equity

\* C28: the capital pools and allocations produced by an update_regime call
\* are determined by that call's arguments together with the previous
\* effective weights only: two allocators with equal effective weights that
\* receive the same call produce the same pools and allocations, whatever
\* earlier calls each one received.
C28_PoolsFromArgumentsAndWeights ==
    (/\ ur_call.op = "update_regime"
     /\ ur_call.same_call
     /\ ur_call.pre.effective_weights = ur_call.pre2.effective_weights
     /\ ur_call.pre.effective_weights_per_symbol
            = ur_call.pre2.effective_weights_per_symbol) =>
        /\ alloc.symbol_capital_pool = obs.symbol_capital_pool
        /\ alloc.strategy_allocation = obs.strategy_allocation

\* C29: after a multi-strategy regime tick in which every runtime start and
\* stop command succeeds and nothing else changes the runtime, the set of
\* running managed strategies equals exactly the set of managed IDs with
\* allocation > 0, so no strategy with allocation zero is left running.
PositiveAllocationIds ==
    {sid \in get_all_managed_ids(alloc) :
        LT(Zero, Get(alloc.strategy_allocation, sid, Zero))}

MultiTickDone ==
    /\ pc["r1"] = "r_exit"
    /\ rt.mode = "multi"
    /\ rt.failed = {}

GradualTransitionStep ==
    LET current == alloc.effective_weights
        target == alloc.target_weights
        s == config.multi_strategy.transition.max_step_per_tick
        stepped == SteppedWeights(current, target, s)
    IN /\ alloc'.effective_weights = normalize_weights(stepped)
       /\ \A st \in DOMAIN current \cup DOMAIN target :
            /\ LE(RAbs(Sub(stepped[st], Get(current, st, Zero))), s)
            /\ LE(RAbs(Sub(Get(target, st, Zero), Get(current, st, Zero))), s)
                 => stepped[st] = Get(target, st, Zero)

C30_StepCappedOrSnapped == [][(ncalls' = ncalls + 1) => GradualTransitionStep]_vars

\* the first call capped one style, took another exactly to its target, and
\* the renormalisation then changed the vector
C30_Witness ==
    /\ ncalls = 1
    /\ LET current == ur_call.pre.effective_weights
           target == alloc.target_weights
           s == config.multi_strategy.transition.max_step_per_tick
           stepped == SteppedWeights(current, target, s)
       IN /\ \E st \in Styles :
               /\ LT(s, RAbs(Sub(target[st], current[st])))
               /\ RAbs(Sub(stepped[st], current[st])) = s
          /\ \E st \in Styles :
               /\ current[st] # target[st]
               /\ stepped[st] = target[st]
          /\ alloc.effective_weights = normalize_weights(stepped)
          /\ alloc.effective_weights # stepped

\* C31: _stop_strategies commands the runtime to stop every given ID before
\* it persists the stopped status, and a runtime stop failure for one ID
\* prevents neither the stop attempts for the remaining IDs nor the
\* persistence of stopped for all given IDs.
C31_StopAllThenPersist ==
    [][/\ (pc["r1"] = "s_loop" /\ pc'["r1"] # "s_loop") =>
            (rt["r1"].attempted = rt["r1"].ids /\ pc'["r1"] = "s_persist")
       /\ (pc["r1"] = "s_loop" /\ rt["r1"].attempted # rt["r1"].ids) =>
            rt'["r1"].attempted = rt["r1"].attempted \cup {MinOf(rt["r1"].ids \ rt["r1"].attempted)}
       /\ (rt'["r1"].persisted /\ ~rt["r1"].persisted) =>
            /\ rt["r1"].attempted = rt["r1"].ids
            /\ \A sid \in rt["r1"].ids : db_status'[sid] = "stopped"
       /\ (pc["r1"] = "s_persist" /\ ~rt'["r1"].raised) => rt'["r1"].persisted]_vars

\* the first ID did not stop, a later one was stopped, and stopped was
\* persisted for both
C31_Witness ==
    /\ pc["r1"] = "s_done"
    /\ rt["r1"].persisted
    /\ \E f \in rt["r1"].failed : \E g \in rt["r1"].ids \ rt["r1"].failed :
         /\ f < g
         /\ f \in executor.running
         /\ g \notin executor.running
         /\ db_status[f] = "stopped"
         /\ db_status[g] = "stopped"

\* C32: get_portfolio_allocator and get_circuit_breaker each create at most
\* one instance and return that same instance to every caller, also when the
\* first calls arrive concurrently from several threads (no reset call in
\* between).
C32_OneInstance ==
    /\ \A w \in Singletons : obs.constructed[w] <= 1
    /\ \A t \in GetterThreads :
         pc[t] = "g_done" => (rt[t].got # 0 /\ rt[t].got = obs.instance[rt[t].which])
    /\ \A t1 \in GetterThreads, t2 \in GetterThreads :
         (pc[t1] = "g_done" /\ pc[t2] = "g_done" /\ rt[t1].which = rt[t2].which)
            => rt[t1].got = rt[t2].got

\* two threads passed the test outside the lock together, one constructed
\* and the other found the instance under the lock; both returned it
C32_Witness ==
    /\ pc["r1"] = "g_done" /\ pc["r2"] = "g_done"
    /\ rt["r1"].which = "allocator" /\ rt["r2"].which = "allocator"
    /\ rt["r1"].got = 1 /\ rt["r2"].got = 1
    /\ pc["m1"] = "g_locked" /\ rt["m1"].which = "allocator"
    /\ pc["m2"] = "g_done" /\ rt["m2"].which = "breaker" /\ rt["m2"].got = 1

\* C33: after a regime tick's start/stop application and a concurrently
\* running monitor-tick emergency stop have both completed, in every
\* interleaving each affected strategy's persisted status is running if and
\* only if the runtime is actually running it (no strategy is left running
\* with persisted status stopped, or stopped with persisted status running).
C33_StatusMatchesRuntime ==
    (pc["r1"] = "s_done" /\ pc["m1"] = "s_done") =>
        \A sid \in rt["r1"].ids \cup rt["r1"].start_ids \cup rt["m1"].ids :
            db_status[sid] = "running" <=> sid \in get_currently_running_ids(executor)

\* C34: if the breaker is Triggered and from some point on every monitor tick
\* observes a drawdown below recovery_threshold_pct, then once
\* cooldown_minutes have elapsed the next check returns the breaker to
\* Normal, so under continued ticks the breaker is eventually released.
C34_EventuallyReleased ==
    /\ [][(/\ pc = "recovering"
           /\ cb_call'.op = "check" /\ cb_call' # cb_call
           /\ now - breaker.trigger_time >= cb_call'.cfg.cooldown_minutes)
          => (~breaker'.is_triggered /\ ~cb_call'.ret)]_vars
    /\ (pc = "recovering" /\ breaker.is_triggered) ~> ~breaker.is_triggered

C34_Witness ==
    /\ pc = "released"
    /\ cb_call.op = "check" /\ cb_call.pre.is_triggered
    /\ cb_call.cfg.cooldown_minutes > 0
    /\ cb_call.at - cb_call.pre.trigger_time = cb_call.cfg.cooldown_minutes
    /\ LT(Zero, compute_drawdown_pct(breaker))

\* C35: in every reachable breaker state the triggered flag is true if and
\* only if a trigger time is recorded; check and reset set and clear the two
\* together.
C35_FlagIffTriggerTime ==
    breaker.is_triggered <=> breaker.trigger_time # NoTime

C35_Witness ==
    /\ cb_call.op = "reset"
    /\ cb_call.pre.is_triggered /\ cb_call.pre.trigger_time # NoTime
    /\ ~breaker.is_triggered /\ breaker.trigger_time = NoTime

\* C36: while the breaker stays Triggered, further check calls never change
\* the recorded trigger time: a check made on a triggered breaker that leaves
\* it triggered leaves the trigger time as it was.
C36_TriggerTimeKept ==
    [][(/\ cb_call'.op = "check"
        /\ breaker.is_triggered
        /\ breaker'.is_triggered)
       => breaker'.trigger_time = breaker.trigger_time]_vars

C36_Witness ==
    /\ cb_call.op = "check"
    /\ cb_call.pre.is_triggered /\ breaker.is_triggered
    /\ cb_call.cfg.enabled
    /\ cb_call.at > breaker.trigger_time
    /\ breaker.trigger_time = cb_call.pre.trigger_time
    /\ breaker.last_equity # cb_call.pre.last_equity

\* C37: after every update_regime call every ID in the frozen set has a
\* strictly positive allocation; the call also removes IDs that were frozen
\* manually through freeze_strategy and IDs that have left the strategy map.
C37_FrozenHavePositiveAllocation ==
    ur_call.op = "update_regime" =>
        \A sid \in alloc.frozen_strategies :
            /\ sid \in DOMAIN alloc.strategy_allocation
            /\ LT(Zero, alloc.strategy_allocation[sid])

\* a call that drops an ID that was frozen by hand and has since left the map
C37_Witness ==
    /\ ur_call.op = "update_regime"
    /\ \E sid \in ur_call.pre.frozen_strategies \ alloc.frozen_strategies :
         /\ sid \in DOMAIN ur_call.pre.strategy_allocation
         /\ LT(Zero, ur_call.pre.strategy_allocation[sid])
         /\ sid \notin DOMAIN alloc.strategy_allocation

\* C38: the re-entrancy guard of each tick entry point is released when the
\* tick body ends, also when the body raises: whenever no invocation of a
\* task is in its body, the task's lock is free.
C38_GuardReleasedAtEnd ==
    /\ (\A t \in RegimeThreads : pc[t] \notin RegimeBody) => run_lock.regime = Free
    /\ (\A t \in MonitorThreads : pc[t] \notin MonitorBody) => run_lock.monitor = Free

\* a regime tick has ended by raising, its lock is free, and the monitor
\* tick that ended by raising has been entered again
C38_Witness ==
    /\ rt.outcome = "raised"
    /\ pc["r1"] = "idle" /\ run_lock.regime = Free
    /\ mt.outcome = "raised"
    /\ pc["m1"] = "idle" /\ run_lock.monitor = Free

\* C39: after every update_regime call get_allocated_capital(id) returns a
\* value exactly for the IDs of that call's managed set (the IDs listed in
\* the strategy map the call received) and None for every other ID,
\* including IDs that were managed by an earlier call and have since been
\* removed from the map.
ReturnsValue(a, sid) ==
    /\ sid \in DOMAIN a.strategy_allocation
    /\ get_allocated_capital(a, sid).value = a.strategy_allocation[sid]

ReturnsNone(a, sid) ==
    /\ sid \notin DOMAIN a.strategy_allocation
    /\ get_allocated_capital(a, sid).value = "None"

C39_AllocatedExactlyManaged ==
    [][(ur_call'.op = "update_regime" /\ ncalls' # ncalls) =>
         \A sid \in Ids :
            IF sid \in ManagedIdsOf(config.symbol_strategies)
            THEN ReturnsValue(alloc', sid) /\ sid \in get_all_managed_ids(alloc')
            ELSE ReturnsNone(alloc', sid) /\ sid \notin get_all_managed_ids(alloc')]_vars

\* the last call was made with a map that strategy 2 has left, strategy 2 had
\* an allocation before the call, strategy 1 has one after it
C39_Witness ==
    /\ ur_call.op = "update_regime"
    /\ 2 \in DOMAIN ur_call.pre.strategy_allocation
    /\ ReturnsNone(alloc, 2)
    /\ ReturnsValue(alloc, 1)
    /\ get_all_managed_ids(alloc) = {1}

\* C40: no interleaving of a regime tick, a monitor tick and runtime
\* start/stop calls deadlocks: the allocator lock, the breaker lock and the
\* runtime lock are always acquired in one consistent order (allocator before
\* runtime), no thread that holds the runtime lock waits for the allocator
\* lock, and no set of threads waits in a cycle for locks held inside the set.
WantedLock(t) ==
    LET prog == LockProgram(rt[t].op)
    IN IF pc[t] = "in_op" /\ rt[t].at <= Len(prog) /\ prog[rt[t].at].do = "acquire"
       THEN prog[rt[t].at].lock ELSE "none"

HeldLocks(t) == {l \in Locks : obs[l] = t}

LockRank(l) == IF l = "allocator" THEN 1 ELSE IF l = "breaker" THEN 2 ELSE 3

C40_NoDeadlock ==
    /\ \A t \in LockThreads :
         WantedLock(t) # "none" =>
            \A l \in HeldLocks(t) : LockRank(l) < LockRank(WantedLock(t))
    /\ \A t \in LockThreads :
         "runtime" \in HeldLocks(t) => WantedLock(t) # "allocator"
    /\ \A D \in SUBSET LockThreads :
         D # {} => \E t \in D : WantedLock(t) = "none" \/ obs[WantedLock(t)] \notin D

\* the regime tick holds the allocator lock and waits for the runtime lock,
\* which a strategy thread holds, while the monitor tick holds the breaker lock
C40_Witness ==
    /\ "allocator" \in HeldLocks("r1") /\ WantedLock("r1") = "runtime"
    /\ obs["runtime"] = "x1"
    /\ obs["breaker"] = "m1"

====
